---- MODULE Spec2Model ----
(***************************************************************************)
(* A state-machine model of the band analysis of arpes:                    *)
(*   unpack_bands_from_fit  (src/arpes/analysis/band_analysis.py, 92-247)  *)
(*   fit_bands              (src/arpes/analysis/band_analysis.py, 426-543) *)
(*   _iterate_marginals     (src/arpes/analysis/band_analysis.py, 582-593) *)
(*   fit_patterned_bands    (src/arpes/analysis/band_analysis.py, 250-423, *)
(*                           546-579, 596-629)                             *)
(*   XModelMixin.__add__,   (src/arpes/fits/fit_models/x_model_mixin.py)   *)
(*   XModelMixin.guess_fit                                                 *)
(*   HotPool                (src/arpes/fits/hot_pool.py)                   *)
(* Python indices are 0-based, the model's sequences are 1-based.          *)
(***************************************************************************)
EXTENDS Integers, Sequences, FiniteSets, TLC

VARIABLES
    prog,                       \* which function of the module is running
    pc,                         \* its position
    \* ---- unpack_bands_from_fit
    n_slices,                   \* len(band_results)
    axis,                       \* band_results.coords along its single dimension
    prefixes,                   \* line 129
    band_results,               \* the fit results enumerated so far (the argument)
    identified_by_coordinate,   \* line 159, a dict in insertion order
    identified_band_results,    \* line 131, the cells written at line 199
    first_coordinate,           \* line 160
    resolved,                   \* per slice: the locals of the loop body, lines 161-199
    bands,                      \* line 203, the list that is returned
    \* ---- fit_bands and _iterate_marginals
    arr,                        \* the array: its dims and the coords of each
    direction,                  \* fit_bands' direction argument
    preferred_k_direction,      \* fit_bands' preferred_k_direction argument
    broadcast_direction,        \* lines 448-454
    directions,                 \* lines 446, 456
    initial_fits,               \* lines 464, 479-482
    all_fit_parameters,         \* line 465, a dict in insertion order
    fit_results,                \* fit_bands' band_results, the cells written at line 536
    swept,                      \* per marginal: the locals of the loop body, lines 507-537
    band_description,           \* fit_bands' band_description argument
    step,                       \* fit_bands' step argument
    spectrum,                   \* arr.values along the broadcast axis, first marginal
    peeling,                    \* per band: the locals of the loop body, lines 470-494
    fit_residual,               \* fit_bands' residual, lines 458-459 and 484
    returned,                   \* what fit_bands returned: <<>> or the tuple
    \* ---- HotPool (src/arpes/fits/hot_pool.py)
    hot_pool,                   \* the instance of line 44: its _pool, <<>> for None
    pools_made,                 \* the Pools constructed so far: "open" or "closed"
    pool_log,                   \* per operation on hot_pool: what it did
    \* ---- XModelMixin.guess_fit
    guess_fit_args,             \* the model and the arguments of the call
    guess_fit_locals,           \* the locals at line 187, or what was raised
    \* ---- _iterate_marginals called on its own
    iterate_directions,         \* the argument
    generator,                  \* the running generator: its selectors and position
    yielded,                    \* per call, what the generator has yielded
    \* ---- fit_patterned_bands (on arr)
    band_set,                   \* the argument: a dict in insertion order, mutated in place
    band_set_at_call,           \* band_set as the caller passed it
    fit_direction,              \* the argument
    stray,                      \* the argument: <<>> for None, <<s>> for a number
    background,                 \* the argument, rebound at line 294
    dataset,                    \* the argument
    free_directions,            \* lines 296-297
    patterned_results,          \* band_results, line 340: per cell, what was written to it
    patterned_swept,            \* per slice processed: the locals of the loop body, 354-383
    residual,                   \* lines 389-390: per cell, zeros or the stored residual
    residual_log,               \* per cell visited by the loop of lines 392-398: what happened
    \* ---- XModelMixin.__add__
    operands,                   \* the models at hand
    composite                   \* the model built by + so far: <<>> or <<model>>

vars == <<prog, pc, n_slices, axis, prefixes, band_results, identified_by_coordinate,
          identified_band_results, first_coordinate, resolved,
          arr, direction, preferred_k_direction, broadcast_direction, directions,
          initial_fits, all_fit_parameters, fit_results, swept,
          iterate_directions, generator, yielded, bands,
          band_set, band_set_at_call, fit_direction, stray, background, dataset,
          free_directions, patterned_results, patterned_swept, residual, residual_log,
          operands, composite,
          band_description, step, spectrum, peeling, fit_residual, returned,
          hot_pool, pools_made, pool_log, guess_fit_args, guess_fit_locals>>

fitVars == <<direction, preferred_k_direction, broadcast_direction, directions,
             initial_fits, all_fit_parameters, fit_results, swept,
             band_description, step, spectrum, peeling, fit_residual, returned>>

iterVars == <<iterate_directions, generator, yielded>>

unpackVars == <<n_slices, axis, prefixes, band_results, identified_by_coordinate,
                identified_band_results, first_coordinate, resolved, bands>>

patternedVars == <<band_set, band_set_at_call, fit_direction, stray, background, dataset,
                   free_directions, patterned_results, patterned_swept, residual,
                   residual_log>>

addVars == <<operands, composite>>

poolVars == <<hot_pool, pools_made, pool_log>>

guessVars == <<guess_fit_args, guess_fit_locals>>

(***************************************************************************)
(* Bounds of the model.                                                    *)
(***************************************************************************)
MaxBands == 3
MaxSlices == 3
\* bands * slices of one unpack_bands_from_fit run
MaxComponents == 9

\* Names of the model components of a fit (lmfit prefixes).
PrefixNames == <<"a_", "b_", "c_", "d_", "e_">>

\* First coordinate of the band_results axis; the axis is a regular grid of step 1.
AxisStarts == {-3, -2, 1}

\* The fitted peaks a component can come out as.  Every pairwise euclidean
\* distance of their vectors is a whole number (10, 24, 26) and every
\* division by 1 + stderr is exact, so the integer arithmetic below is the
\* float arithmetic of the source on these inputs.
Peaks ==
    { [sigma |-> 1,  amplitude |-> 1, center |-> 0,
       sigma_stderr |-> 0, amplitude_stderr |-> 0, center_stderr |-> 0],
      [sigma |-> 1,  amplitude |-> 2, center |-> 1,
       sigma_stderr |-> 0, amplitude_stderr |-> 1, center_stderr |-> 0],
      [sigma |-> 13, amplitude |-> 1, center |-> 2,
       sigma_stderr |-> 0, amplitude_stderr |-> 0, center_stderr |-> 1] }

\* Longest coordinate vector of a dimension of arr
MaxAxisLen == 2
\* Calls of _iterate_marginals on the same array
MaxCalls == 2

\* The dims of the arrays of the model, in order
DimChoices == { <<"eV">>, <<"phi">>, <<"eV", "phi">>, <<"phi", "eV", "x">> }

\* A coordinate vector is a regular grid: <<first value, step>>
AxisShapes == { <<0, 1>>, <<2, -1>> }

\* "no value yet": None, an empty list
None == "None"

\* None in a cell of a grid of fit results (line 371)
NoFit == [kind |-> "None"]

(***************************************************************************)
(* Helpers for sequences.                                                  *)
(***************************************************************************)
Range(s) == { s[i] : i \in DOMAIN s }

RemoveAt(s, i) == SubSeq(s, 1, i - 1) \o SubSeq(s, i + 1, Len(s))

\* sum(s[1..n])
RECURSIVE SumTo(_, _)
SumTo(s, n) == IF n = 0 THEN 0 ELSE s[n] + SumTo(s, n - 1)

SumSeq(s) == SumTo(s, Len(s))

RECURSIVE Concat(_)
Concat(ss) == IF ss = <<>> THEN <<>> ELSE ss[1] \o Concat(Tail(ss))

\* math.sqrt on a perfect square (the floor otherwise)
ISqrt(n) == CHOOSE r \in 0..n : r * r <= n /\ (r + 1) * (r + 1) > n

(***************************************************************************)
(* unpack_bands_from_fit                                                   *)
(***************************************************************************)
\* weights: tuple[float, float, float] = (2, 0, 10)
weights == <<2, 0, 10>>

\* as_vector(model_fit, prefix): (sigma, amplitude, center) * weights / (1 + stderr)
as_vector(model_fit, prefix) ==
    LET p == model_fit.params[prefix]
        value  == <<p.sigma, p.amplitude, p.center>>
        stderr == <<p.sigma_stderr, p.amplitude_stderr, p.center_stderr>>
    IN  [c \in 1..3 |-> (value[c] * weights[c]) \div (1 + stderr[c])]

\* scipy.spatial.distance.euclidean(u, v)
euclidean(u, v) ==
    ISqrt((u[1] - v[1]) * (u[1] - v[1]) + (u[2] - v[2]) * (u[2] - v[2])
          + (u[3] - v[3]) * (u[3] - v[3]))

\* lines 178-188: dist_mat[i, j] over np.ndindex(mat_shape)
DistMat(pfx, fit_result, closest_prefixes, closest_fit) ==
    [i \in 1..Len(pfx) |->
        [j \in 1..Len(pfx) |->
            euclidean(as_vector(fit_result, pfx[i]),
                      as_vector(closest_fit, closest_prefixes[j]))]]

\* itertools.permutations(pool): the tuples in the order the generator yields them
RECURSIVE permutations(_)
permutations(pool) ==
    IF pool = <<>> THEN << <<>> >>
    ELSE Concat([i \in 1..Len(pool) |->
            LET rest == permutations(RemoveAt(pool, i))
            IN  [j \in 1..Len(rest) |-> <<pool[i]>> \o rest[j]]])

\* line 193: sum(dist_mat[i, p_i] for i, p_i in enumerate(p))
Trace(dist_mat, p) == SumSeq([i \in 1..Len(p) |-> dist_mat[i][p[i]]])

\* lines 192-196, the loop over the permutations from position `at` on, with
\* the running (best_trace, best_arrangement); best_trace <<>> is float("inf")
RECURSIVE SearchArrangement(_, _, _, _, _)
SearchArrangement(dist_mat, perms, at, best_trace, best_arrangement) ==
    IF at > Len(perms) THEN best_arrangement
    ELSE LET p == perms[at]
             trace == Trace(dist_mat, p)
         IN  IF best_trace = <<>> \/ trace < best_trace[1]
             THEN SearchArrangement(dist_mat, perms, at + 1, <<trace>>, p)
             ELSE SearchArrangement(dist_mat, perms, at + 1, best_trace, best_arrangement)

\* itertools.permutations(range(k)) for every number of bands of the model
PermutationsOfRange == [k \in 0..MaxBands |-> permutations([i \in 1..k |-> i])]

\* The search with "<=" for "<": the last minimal permutation wins
RECURSIVE SearchArrangementLast(_, _, _, _, _)
SearchArrangementLast(dist_mat, perms, at, best_trace, best_arrangement) ==
    IF at > Len(perms) THEN best_arrangement
    ELSE LET p == perms[at]
             trace == Trace(dist_mat, p)
         IN  IF best_trace = <<>> \/ trace <= best_trace[1]
             THEN SearchArrangementLast(dist_mat, perms, at + 1, <<trace>>, p)
             ELSE SearchArrangementLast(dist_mat, perms, at + 1, best_trace,
                                        best_arrangement)

BestArrangementLast(dist_mat, k) ==
    SearchArrangementLast(dist_mat, PermutationsOfRange[k], 1, <<>>, [i \in 1..k |-> i])

\* Every component takes its own nearest reference band, no joint assignment
BestArrangementGreedy(dist_mat, k) ==
    [i \in 1..k |->
        CHOOSE j \in 1..k :
            /\ \A l \in 1..k : dist_mat[i][j] <= dist_mat[i][l]
            /\ \A l \in 1..(j - 1) : dist_mat[i][l] > dist_mat[i][j]]

\* lines 190-196
BestArrangement(dist_mat, k) ==
    SearchArrangement(dist_mat, PermutationsOfRange[k], 1, <<>>, [i \in 1..k |-> i])

\* line 197: [closest_prefixes[p_i] for p_i in best_arrangement]
OrderedPrefixes(closest_prefixes, best_arrangement) ==
    [i \in 1..Len(best_arrangement) |-> closest_prefixes[best_arrangement[i]]]

\* np.dot(coord, frozen_coord) of two coordinate tuples
Dot(a, b) == SumSeq([i \in 1..Len(a) |-> a[i] * b[i]])

\* lines 164-170: the position in identified_by_coordinate of the closest
\* identified entry, 0 for None; dist <<>> is float("inf")
RECURSIVE SearchClosest(_, _, _, _, _)
SearchClosest(identified, frozen_coord, at, dist, closest) ==
    IF at > Len(identified) THEN closest
    ELSE LET current_dist == Dot(identified[at].coord, frozen_coord)
         IN  IF dist = <<>> \/ current_dist < dist[1]
             THEN SearchClosest(identified, frozen_coord, at + 1, <<current_dist>>, at)
             ELSE SearchClosest(identified, frozen_coord, at + 1, dist, closest)

\* The search with "<=" for "<": the latest closest entry wins
RECURSIVE SearchClosestLatest(_, _, _, _, _)
SearchClosestLatest(identified, frozen_coord, at, dist, closest) ==
    IF at > Len(identified) THEN closest
    ELSE LET current_dist == Dot(identified[at].coord, frozen_coord)
         IN  IF dist = <<>> \/ current_dist <= dist[1]
             THEN SearchClosestLatest(identified, frozen_coord, at + 1,
                                      <<current_dist>>, at)
             ELSE SearchClosestLatest(identified, frozen_coord, at + 1, dist, closest)

ClosestIdentifiedLatest(identified, frozen_coord) ==
    SearchClosestLatest(identified, frozen_coord, 1, <<>>, 0)

ClosestIdentified(identified, frozen_coord) ==
    SearchClosest(identified, frozen_coord, 1, <<>>, 0)

\* The dict rebound to a new one holding only the new entry
IdentifiedInsertAlone(identified, frozen_coord, value) ==
    <<[coord |-> frozen_coord, prefixes |-> value.prefixes, fit |-> value.fit]>>

\* identified_by_coordinate[frozen_coord] = value (lines 175, 198): a dict
\* keeps a key's first position and its last value
IdentifiedInsert(identified, frozen_coord, value) ==
    IF \E i \in DOMAIN identified : identified[i].coord = frozen_coord
    THEN [i \in DOMAIN identified |->
            IF identified[i].coord = frozen_coord
            THEN [coord |-> frozen_coord, prefixes |-> value.prefixes, fit |-> value.fit]
            ELSE identified[i]]
    ELSE Append(identified,
                [coord |-> frozen_coord, prefixes |-> value.prefixes, fit |-> value.fit])

\* The variables of the functions that are not running
UnpackIdle ==
    /\ n_slices = 0
    /\ axis = <<>>
    /\ prefixes = <<>>
    /\ band_results = <<>>
    /\ identified_by_coordinate = <<>>
    /\ identified_band_results = <<>>
    /\ first_coordinate = None
    /\ resolved = <<>>
    /\ bands = <<>>

FitBandsIdle ==
    /\ direction = None
    /\ preferred_k_direction = None
    /\ broadcast_direction = None
    /\ directions = <<>>
    /\ initial_fits = None
    /\ all_fit_parameters = <<>>
    /\ fit_results = <<>>
    /\ swept = <<>>
    /\ band_description = <<>>
    /\ step = None
    /\ spectrum = <<>>
    /\ peeling = <<>>
    /\ fit_residual = <<>>
    /\ returned = <<>>

IterateIdle ==
    /\ iterate_directions = None
    /\ generator = None
    /\ yielded = <<>>

PatternedIdle ==
    /\ band_set = <<>>
    /\ band_set_at_call = <<>>
    /\ fit_direction = None
    /\ stray = <<>>
    /\ background = None
    /\ dataset = None
    /\ free_directions = <<>>
    /\ patterned_results = <<>>
    /\ patterned_swept = <<>>
    /\ residual = <<>>
    /\ residual_log = <<>>

AddIdle ==
    /\ operands = <<>>
    /\ composite = <<>>

PoolIdle ==
    /\ hot_pool = None
    /\ pools_made = <<>>
    /\ pool_log = <<>>

GuessFitIdle ==
    /\ guess_fit_args = None
    /\ guess_fit_locals = None

\* A fit result of k components: ModelResult.model.components and .params
FitResults(pfx) ==
    { [components |-> pfx, params |-> ps] : ps \in [Range(pfx) -> Peaks] }

InitUnpack ==
    /\ prog = "unpack_bands_from_fit"
    /\ PoolIdle
    /\ GuessFitIdle
    /\ pc = "loop"
    /\ n_slices \in 1..MaxSlices
    /\ \E k \in 1..MaxBands :
         /\ k * n_slices <= MaxComponents
         /\ prefixes = SubSeq(PrefixNames, 1, k)
    /\ \E start \in AxisStarts : axis = [i \in 1..n_slices |-> start + i - 1]
    /\ band_results = <<>>
    /\ identified_by_coordinate = <<>>
    /\ identified_band_results = <<>>
    /\ first_coordinate = None
    /\ resolved = <<>>
    /\ bands = <<>>
    /\ arr = None
    /\ FitBandsIdle
    /\ IterateIdle
    /\ PatternedIdle
    /\ AddIdle

\* Lines 164-197 for one (coordinate, fit_result): the locals of the loop body
ResolveSlice(identified, pfx, frozen_coord, fit_result) ==
    LET found == ClosestIdentified(identified, frozen_coord)
    IN  \* lines 172-175
        \E closest_identified \in
              { IF found = 0
                THEN [coord |-> frozen_coord, prefixes |-> fit_result.components,
                      fit |-> fit_result]
                ELSE identified[found] } :
        \E dist_mat \in { DistMat(pfx, fit_result, closest_identified.prefixes,
                                  closest_identified.fit) } :
        \E best_arrangement \in { BestArrangement(dist_mat, Len(pfx)) } :
            resolved' =
                Append(resolved,
                       [frozen_coord |-> frozen_coord,
                        fit_result |-> fit_result,
                        pool |-> [i \in DOMAIN identified |-> identified[i].coord],
                        first |-> (found = 0),
                        closest_coord |-> closest_identified.coord,
                        closest_prefixes |-> closest_identified.prefixes,
                        closest_fit |-> closest_identified.fit,
                        dist_mat |-> dist_mat,
                        best_arrangement |-> best_arrangement,
                        ordered_prefixes |->
                            OrderedPrefixes(closest_identified.prefixes,
                                            best_arrangement)])

\* One pass of the loop body, lines 161-199, on the next (coordinate, fit_result).
\* A cell that holds None has no model (line 128, line 174) and no params
\* (lines 142-152)
UnpackSlice ==
    /\ prog = "unpack_bands_from_fit"
    /\ pc = "loop"
    /\ Len(band_results) < n_slices
    /\ \E fit_result \in FitResults(prefixes) \cup {NoFit} :
         IF fit_result = NoFit
         THEN /\ band_results' = Append(band_results, fit_result)
              /\ pc' = "raised AttributeError"
              /\ UNCHANGED <<resolved, first_coordinate, identified_by_coordinate,
                             identified_band_results>>
         ELSE
         LET coordinate == axis[Len(band_results) + 1]
             frozen_coord == <<coordinate>>
         IN  /\ ResolveSlice(identified_by_coordinate, prefixes, frozen_coord, fit_result)
             /\ LET r == resolved'[Len(resolved')]
                    \* line 175
                    identified1 ==
                        IF r.first
                        THEN IdentifiedInsert(identified_by_coordinate, frozen_coord,
                                 [prefixes |-> r.closest_prefixes, fit |-> r.closest_fit])
                        ELSE identified_by_coordinate
                IN  /\ band_results' = Append(band_results, fit_result)
                    /\ first_coordinate' = IF r.first THEN coordinate ELSE first_coordinate
                    \* line 198
                    /\ identified_by_coordinate' =
                           IdentifiedInsert(identified1, frozen_coord,
                               [prefixes |-> r.ordered_prefixes, fit |-> fit_result])
                    \* line 199
                    /\ identified_band_results' =
                           Append(identified_band_results,
                                  [coord |-> coordinate, value |-> r.ordered_prefixes])
             /\ pc' = IF Len(band_results) + 1 = n_slices THEN "identified" ELSE "loop"
    /\ UNCHANGED <<prog, n_slices, axis, prefixes, bands, arr, fitVars, iterVars,
                   patternedVars, addVars, poolVars, guessVars>>

\* The extracted arrays read the prefix of the template, whatever the cell's
\* assignment
dataarray_for_template_prefix(identified, results, param_name, i, is_value) ==
    [values |-> [multi_index \in DOMAIN identified |->
                    LET param == results[multi_index].params[prefixes[i]]
                    IN  IF is_value THEN param[param_name]
                        ELSE param[param_name \o "_stderr"]],
     coords |-> [multi_index \in DOMAIN identified |-> identified[multi_index].coord],
     dims |-> <<"axis">>]

\* Lines 207-233, on identified_band_results and band_results
dataarray_for_value(identified, results, param_name, i, is_value) ==
    [values |-> [multi_index \in DOMAIN identified |->
                    LET prefix == identified[multi_index].value[i]
                        param == results[multi_index].params[prefix]
                    IN  IF is_value THEN param[param_name]
                        ELSE param[param_name \o "_stderr"]],
     coords |-> [multi_index \in DOMAIN identified |-> identified[multi_index].coord],
     dims |-> <<"axis">>]

\* identified_band_results.loc[first_coordinate]
AtCoordinate(identified, coordinate) ==
    identified[CHOOSE s \in DOMAIN identified : identified[s].coord = coordinate]

\* Lines 203-247: the bands are extracted and returned
UnpackExtract ==
    /\ prog = "unpack_bands_from_fit"
    /\ pc = "identified"
    /\ bands' =
           [i \in DOMAIN prefixes |->
               [label |-> AtCoordinate(identified_band_results, first_coordinate).value[i],
                data |->
                    [center |-> dataarray_for_value(identified_band_results, band_results,
                                                    "center", i, TRUE),
                     center_stderr |->
                         dataarray_for_value(identified_band_results, band_results,
                                             "center", i, FALSE),
                     amplitude |->
                         dataarray_for_value(identified_band_results, band_results,
                                             "amplitude", i, TRUE),
                     amplitude_stderr |->
                         dataarray_for_value(identified_band_results, band_results,
                                             "amplitude", i, FALSE),
                     sigma |-> dataarray_for_value(identified_band_results, band_results,
                                                   "sigma", i, TRUE),
                     sigma_stderr |->
                         dataarray_for_value(identified_band_results, band_results,
                                             "sigma", i, FALSE)]]]
    /\ pc' = "returned"
    /\ UNCHANGED <<prog, n_slices, axis, prefixes, band_results, identified_by_coordinate,
                   identified_band_results, first_coordinate, resolved, arr, fitVars,
                   iterVars, patternedVars, addVars, poolVars, guessVars>>

NextUnpack == UnpackSlice \/ UnpackExtract

SpecUnpack == InitUnpack /\ [][NextUnpack]_vars

(***************************************************************************)
(* _iterate_marginals                                                      *)
(***************************************************************************)
AxisCoords ==
    { [i \in 1..n |-> sh[1] + (i - 1) * sh[2]] : n \in 1..MaxAxisLen, sh \in AxisShapes }

\* xr.DataArray: the names of its dimensions and the coordinates of each
Arrays ==
    UNION { { [dims |-> ds, coords |-> cs] : cs \in [Range(ds) -> AxisCoords] } :
            ds \in DimChoices }

\* list.remove(x) on a list that holds x: the first occurrence goes
ListRemove(l, x) ==
    LET at == CHOOSE i \in DOMAIN l : l[i] = x /\ \A j \in 1..(i - 1) : l[j] # x
    IN  RemoveAt(l, at)

\* itertools.product(*pools): result = [x + [y] for x in result for y in pool]
RECURSIVE product(_)
product(pools) ==
    IF pools = <<>> THEN << <<>> >>
    ELSE LET result == product(SubSeq(pools, 1, Len(pools) - 1))
             pool == pools[Len(pools)]
         IN  Concat([x \in 1..Len(result) |->
                        [y \in 1..Len(pool) |-> Append(result[x], pool[y])]])

\* No directions taken as nothing to iterate
SelectorsNoneForEmpty(a, dirs) ==
    IF dirs = <<>> THEN <<>>
    ELSE product([i \in 1..Len(dirs) |-> a.coords[dirs[i]]])

\* line 590
Selectors(a, dirs) == product([i \in 1..Len(dirs) |-> a.coords[dirs[i]]])

\* line 592: dict(zip(iterate_directions, [float(s) for s in ss], strict=True)),
\* a repeated key keeps its last value
ZipCoords(dirs, ss) ==
    [d \in Range(dirs) |->
        ss[CHOOSE i \in DOMAIN dirs :
              dirs[i] = d /\ \A j \in (i + 1)..Len(dirs) : dirs[j] # d]]

\* arr.sel(coords): the sub-array at the selected coordinates, over the
\* dimensions that were not selected
Sel(a, coords) ==
    [dims |-> SelectSeq(a.dims, LAMBDA d : d \notin DOMAIN coords), at |-> coords]

\* line 593: what the generator yields for the selector ss
Yield(a, dirs, ss) ==
    LET coords == ZipCoords(dirs, ss)
    IN  [marginal |-> Sel(a, coords), coords |-> coords]

\* lines 590-593: everything a generator on (arr, iterate_directions) yields
IterateMarginals(a, dirs) ==
    LET selectors == Selectors(a, dirs)
    IN  [i \in 1..Len(selectors) |-> Yield(a, dirs, selectors[i])]

\* A generator that resumes the selectors of the call before it
NewGeneratorShared(a, dirs) ==
    [directions |-> dirs, selectors |-> Selectors(a, dirs),
     pos |-> IF yielded = <<>> THEN 0 ELSE Len(Selectors(a, dirs))]

\* A call of _iterate_marginals: a generator at the start of its selectors
NewGenerator(a, dirs) ==
    [directions |-> dirs, selectors |-> Selectors(a, dirs), pos |-> 0]

\* The order-preserving sub-lists of a list
RECURSIVE SubLists(_)
SubLists(l) ==
    IF l = <<>> THEN { <<>> }
    ELSE LET rest == SubLists(Tail(l))
         IN  rest \cup { <<l[1]>> \o r : r \in rest }

\* iterate_directions is <<>> for None and <<list>> for a list
InitIterate ==
    /\ prog = "_iterate_marginals"
    /\ PoolIdle
    /\ GuessFitIdle
    /\ pc = "idle"
    /\ arr \in Arrays
    /\ iterate_directions \in { <<>> } \cup { <<l>> : l \in SubLists(arr.dims) }
    /\ generator = <<>>
    /\ yielded = <<>>
    /\ UnpackIdle
    /\ FitBandsIdle
    /\ PatternedIdle
    /\ AddIdle

\* Lines 586-590: the call, up to the creation of the selectors
IterateCall ==
    /\ prog = "_iterate_marginals"
    /\ pc \in {"idle", "exhausted"}
    /\ Len(yielded) < MaxCalls
    /\ IF iterate_directions = <<>> /\ "eV" \notin Range(arr.dims)
       THEN /\ pc' = "raised ValueError"
            /\ UNCHANGED <<generator, yielded>>
       ELSE LET dirs == IF iterate_directions = <<>>
                        THEN ListRemove(arr.dims, "eV")
                        ELSE iterate_directions[1]
            IN  /\ generator' = <<NewGenerator(arr, dirs)>>
                /\ yielded' = Append(yielded, <<>>)
                /\ pc' = "running"
    /\ UNCHANGED <<prog, arr, iterate_directions, unpackVars, fitVars, patternedVars,
                   addVars, poolVars, guessVars>>

\* Lines 591-593: the next selector is yielded
IterateNext ==
    /\ prog = "_iterate_marginals"
    /\ pc = "running"
    /\ generator[1].pos < Len(generator[1].selectors)
    /\ LET g == generator[1]
           ss == g.selectors[g.pos + 1]
       IN  /\ generator' = <<[g EXCEPT !.pos = g.pos + 1]>>
           /\ yielded' = [yielded EXCEPT ![Len(yielded)] =
                             Append(@, Yield(arr, g.directions, ss))]
    /\ UNCHANGED <<prog, pc, arr, iterate_directions, unpackVars, fitVars, patternedVars,
                   addVars, poolVars, guessVars>>

\* Line 591: the selectors are exhausted, the generator ends
IterateStop ==
    /\ prog = "_iterate_marginals"
    /\ pc = "running"
    /\ generator[1].pos = Len(generator[1].selectors)
    /\ pc' = "exhausted"
    /\ generator' = <<>>
    /\ UNCHANGED <<prog, arr, iterate_directions, yielded, unpackVars, fitVars,
                   patternedVars, addVars, poolVars, guessVars>>

NextIterate == IterateCall \/ IterateNext \/ IterateStop

SpecIterate == InitIterate /\ [][NextIterate]_vars

(***************************************************************************)
(* fit_bands                                                               *)
(***************************************************************************)
\* line 444
Directions == {"edc", "mdc", "EDC", "MDC"}

\* line 453
MomentumDims == {"kp", "kx", "ky", "phi"}

\* composite_model.fit(...) seeded with closest_model_params, lines 523-532:
\* fresh parameters, known by the coordinate they were fit at
Fit(frozen_coordinate, closest_model_params) ==
    [params |-> [kind |-> "fit", at |-> frozen_coordinate],
     init_params |-> closest_model_params]

\* lines 514-518, the loop over all_fit_parameters.items() from position `at`
\* on; dist <<>> is float("inf"), and no pass of the loop assigns dist
RECURSIVE SearchPrior(_, _, _, _, _, _)
SearchPrior(cache, frozen_coordinate, dir, at, dist, closest_model_params) ==
    IF at > Len(cache) THEN closest_model_params
    ELSE LET c == cache[at].coord
             delta == [i \in DOMAIN c |-> c[i] - frozen_coordinate[i]]
             current_distance == Dot(delta, delta)
         IN  IF (dist = <<>> \/ current_distance < dist[1]) /\ dir = "mdc"
             THEN SearchPrior(cache, frozen_coordinate, dir, at + 1, dist,
                              cache[at].params)
             ELSE SearchPrior(cache, frozen_coordinate, dir, at + 1, dist,
                              closest_model_params)

\* lines 511-518
ClosestModelParams(cache, frozen_coordinate, dir, initial) ==
    SearchPrior(cache, frozen_coordinate, dir, 1, <<>>, initial)

\* The cache rebound to a new dict holding only the new entry
CacheInsertAlone(cache, frozen_coordinate, params) ==
    <<[coord |-> frozen_coordinate, params |-> params]>>

\* line 537: all_fit_parameters[frozen_coordinate] = fit_result.params
CacheInsert(cache, frozen_coordinate, params) ==
    IF \E i \in DOMAIN cache : cache[i].coord = frozen_coordinate
    THEN [i \in DOMAIN cache |->
            IF cache[i].coord = frozen_coordinate
            THEN [coord |-> frozen_coordinate, params |-> params]
            ELSE cache[i]]
    ELSE Append(cache, [coord |-> frozen_coordinate, params |-> params])

\* A direction that line 444 refuses
BadDirection == "diagonal"

\* The bands of a band description: a band object, or a dict of a band and
\* its params (lines 471-476); every band has its own label
PeelingDescriptions ==
    LET band(label, as_dict) ==
            [band |-> [label |-> label], is_dict |-> as_dict,
             params |-> IF as_dict THEN <<[center |-> [min |-> 0]]>> ELSE <<>>]
    IN  { <<band("a_", FALSE)>>,
          <<band("a_", TRUE), band("b_", FALSE)>>,
          <<band("b_", FALSE), band("a_", TRUE), band("c_", TRUE)>> }

\* arr.values of the first marginal, by position along the broadcast axis
Spectra ==
    { [i \in 1..(MaxAxisLen + 1) |-> 2 * i + 1],
      [i \in 1..(MaxAxisLen + 1) |-> IF i = 1 THEN 6 ELSE i] }

\* np.min(values)
Min(values) == CHOOSE v \in Range(values) : \A w \in Range(values) : v <= w

\* np.argmax(values): the first position of the greatest value
ArgMax(values) ==
    CHOOSE i \in DOMAIN values :
        /\ \A j \in DOMAIN values : values[j] <= values[i]
        /\ \A j \in 1..(i - 1) : values[j] < values[i]

\* Lines 458-459: the first marginal, shifted by its minimum
FirstResidual(a, b, values) ==
    LET marginal == SubSeq(values, 1, Len(a.coords[b]))
    IN  [i \in DOMAIN marginal |-> marginal[i] - Min(marginal)]

\* Lines 477-478, fit_model.guess_fit(residual, params=params) of a one-peak
\* model of prefix label: the fit takes the tallest point of the data, its
\* parameters are named by the prefix
guess_fit_of(label, x, data, params) ==
    LET at == ArgMax(data)
    IN  [params |-> [name \in {label \o "amplitude", label \o "center"} |->
                        IF name = label \o "amplitude" THEN data[at] ELSE x[at]],
         best_fit |-> [i \in DOMAIN data |-> IF i = at THEN data[at] ELSE 0],
         hints |-> params]

\* The residual left as it is
ResidualKept(data, best_fit) == data

\* Line 484: residual - initial_fit.best_fit
ResidualMinus(data, best_fit) == [i \in DOMAIN data |-> data[i] - best_fit[i]]

\* Line 482, Parameters.update: the names of other are set, the rest is kept
ParametersUpdate(d, other) ==
    [name \in DOMAIN d \cup DOMAIN other |->
        IF name \in DOMAIN other THEN other[name] ELSE d[name]]

\* Lines 448-454: what broadcast_direction can come out as;
\* next(iter(a_set)) takes any element of the set
BroadcastDirections(a, dir, preferred) ==
    IF dir = "mdc" /\ preferred = ""
    THEN Range(a.dims) \cap MomentumDims
    ELSE {"eV"}

\* Every direction let through
DirectionUnchecked(dir) == ""

\* Line 444: assert direction in ["edc", "mdc", "EDC", "MDC"]
DirectionCheck(dir) == IF dir \in Directions THEN "" ELSE "AssertionError"

InitFitBands ==
    /\ prog = "fit_bands"
    /\ PoolIdle
    /\ GuessFitIdle
    /\ pc = "start"
    /\ arr \in Arrays
    /\ direction \in Directions \cup {BadDirection}
    /\ preferred_k_direction \in {"", "phi"}
    /\ band_description \in PeelingDescriptions
    /\ step \in {"initial", None}
    /\ spectrum \in Spectra
    /\ broadcast_direction = None
    /\ directions = <<>>
    /\ initial_fits = None
    /\ all_fit_parameters = <<>>
    /\ fit_results = <<>>
    /\ swept = <<>>
    /\ peeling = <<>>
    /\ fit_residual = <<>>
    /\ returned = <<>>
    /\ UnpackIdle
    /\ IterateIdle
    /\ PatternedIdle
    /\ AddIdle

\* Lines 444-468: the checks of the arguments, the broadcast direction, the
\* free directions and the residual of the first marginal
FitBandsStart ==
    /\ prog = "fit_bands"
    /\ pc = "start"
    /\ LET possible_directions == BroadcastDirections(arr, direction, preferred_k_direction)
       IN  IF DirectionCheck(direction) # ""
           THEN \* line 444
                /\ pc' = "raised " \o DirectionCheck(direction)
                /\ UNCHANGED <<broadcast_direction, directions, fit_residual>>
           ELSE IF possible_directions = {}
           THEN \* line 454: next() of an empty iterator
                /\ pc' = "raised StopIteration"
                /\ UNCHANGED <<broadcast_direction, directions, fit_residual>>
           ELSE \E b \in possible_directions :
                  IF b \notin Range(arr.dims)
                  THEN \* line 456: list.remove(x), x not in list
                       /\ pc' = "raised ValueError"
                       /\ UNCHANGED <<broadcast_direction, directions, fit_residual>>
                  ELSE /\ broadcast_direction' = b
                       /\ directions' = ListRemove(arr.dims, b)
                       /\ fit_residual' = FirstResidual(arr, b, spectrum)
                       /\ pc' = "peel"
    /\ UNCHANGED <<prog, arr, direction, preferred_k_direction, initial_fits,
                   all_fit_parameters, fit_results, swept, band_description, step,
                   spectrum, peeling, returned, unpackVars, iterVars, patternedVars,
                   addVars, poolVars, guessVars>>

\* One pass of the loop body, lines 470-494, on the next band of the description
FitBandsPeel ==
    /\ prog = "fit_bands"
    /\ pc = "peel"
    /\ Len(peeling) < Len(band_description)
    /\ LET band == band_description[Len(peeling) + 1]
           band_inst == band.band
           params == band.params
           initial_fit == guess_fit_of(band_inst.label, arr.coords[broadcast_direction],
                                       fit_residual, params)
       IN  /\ initial_fits' =
                  [kind |-> "initial", at |-> <<>>,
                   params |-> IF peeling = <<>> THEN initial_fit.params
                              ELSE ParametersUpdate(initial_fits.params,
                                                    initial_fit.params)]
           /\ fit_residual' = ResidualMinus(fit_residual, initial_fit.best_fit)
           /\ peeling' = Append(peeling,
                  [band |-> band, residual |-> fit_residual, initial_fit |-> initial_fit])
    /\ UNCHANGED <<prog, pc, arr, direction, preferred_k_direction, broadcast_direction,
                   directions, all_fit_parameters, fit_results, swept, band_description,
                   step, spectrum, returned, unpackVars, iterVars, patternedVars,
                   addVars, poolVars, guessVars>>

\* Lines 496-505: every band is peeled; with step 'initial' the residual is
\* returned, otherwise the empty grid of results is made and the sweep begins
FitBandsPeeled ==
    /\ prog = "fit_bands"
    /\ pc = "peel"
    /\ Len(peeling) = Len(band_description)
    /\ IF step = "initial"
       THEN /\ pc' = "returned residual"
            /\ returned' = << <<>>, <<>>, <<fit_residual>> >>
       ELSE /\ pc' = "sweep"
            /\ UNCHANGED returned
    /\ UNCHANGED <<prog, arr, direction, preferred_k_direction, broadcast_direction,
                   directions, initial_fits, all_fit_parameters, fit_results, swept,
                   band_description, step, spectrum, peeling, fit_residual,
                   unpackVars, iterVars, patternedVars, addVars, poolVars, guessVars>>

\* One pass of the loop body, lines 507-537, on the next marginal
FitBandsSlice ==
    /\ prog = "fit_bands"
    /\ pc = "sweep"
    /\ \E marginals \in { IterateMarginals(arr, directions) } :
         /\ Len(swept) < Len(marginals)
         /\ \E coordinate \in { marginals[Len(swept) + 1].coords } :
            \* line 513, template.dims being the free directions in order
            \E frozen_coordinate \in
                  { [i \in 1..Len(directions) |-> coordinate[directions[i]]] } :
            \E closest_model_params \in
                  { ClosestModelParams(all_fit_parameters, frozen_coordinate,
                                       direction, initial_fits) } :
            \E fit_result \in { Fit(frozen_coordinate, closest_model_params) } :
              /\ fit_results' = Append(fit_results,
                                       [coord |-> coordinate, value |-> fit_result])
              /\ all_fit_parameters' =
                     CacheInsert(all_fit_parameters, frozen_coordinate, fit_result.params)
              /\ swept' = Append(swept,
                     [frozen_coordinate |-> frozen_coordinate,
                      cache |-> all_fit_parameters,
                      closest_model_params |-> closest_model_params,
                      fit_result |-> fit_result])
    /\ UNCHANGED <<prog, pc, arr, direction, preferred_k_direction, broadcast_direction,
                   directions, initial_fits, band_description, step, spectrum, peeling,
                   fit_residual, returned, unpackVars, iterVars, patternedVars,
                   addVars, poolVars, guessVars>>

\* Lines 507, 539-543: the marginals are exhausted, band_results is returned
FitBandsReturn ==
    /\ prog = "fit_bands"
    /\ pc = "sweep"
    /\ Len(swept) = Len(IterateMarginals(arr, directions))
    /\ pc' = "returned"
    /\ returned' = << <<fit_results>>, <<>>, <<>> >>
    /\ UNCHANGED <<prog, arr, direction, preferred_k_direction, broadcast_direction,
                   directions, initial_fits, all_fit_parameters, fit_results, swept,
                   band_description, step, spectrum, peeling, fit_residual,
                   unpackVars, iterVars, patternedVars, addVars, poolVars, guessVars>>

NextFitBands ==
    FitBandsStart \/ FitBandsPeel \/ FitBandsPeeled \/ FitBandsSlice \/ FitBandsReturn

SpecFitBands == InitFitBands /\ [][NextFitBands]_vars

(***************************************************************************)
(* XModelMixin.__add__ and XAdditiveCompositeModel                         *)
(* (src/arpes/fits/fit_models/x_model_mixin.py)                            *)
(***************************************************************************)
\* Operands of one chain of +
MaxOperands == 3

\* The line shapes of the models and the names of their parameters
ParamBaseNames ==
    [peak |-> <<"amplitude", "center", "sigma">>, affine |-> <<"slope", "const">>]

\* Leaf models: a line shape under a prefix, over n_dims dimensions (line 111)
LeafModels ==
    { [kind |-> "Model", shape |-> sp[1], prefix |-> sp[2], n_dims |-> n,
       param_hints |-> <<>>] :
        sp \in { <<"peak", "a_">>, <<"peak", "b_">>, <<"affine", "c_">> }, n \in {1, 2} }

\* Model.param_names: the parameters of the leaves, each under its prefix
RECURSIVE param_names(_)
param_names(m) ==
    IF m.kind = "Model"
    THEN [i \in DOMAIN ParamBaseNames[m.shape] |-> <<m.prefix, ParamBaseNames[m.shape][i]>>]
    ELSE param_names(m.left) \o param_names(m.right)

\* A sum built with operator.mul, as __mul__ builds its product (line 236)
CompositeWithOperatorMul(left, right) ==
    [kind |-> "XAdditiveCompositeModel", left |-> left, right |-> right,
     op |-> "mul", n_dims |-> 1]

\* Line 229: XAdditiveCompositeModel(self, other, operator.add); n_dims is the
\* class attribute (line 111) until line 231 assigns it
XAdditiveCompositeModel(left, right) ==
    [kind |-> "XAdditiveCompositeModel", left |-> left, right |-> right,
     op |-> "add", n_dims |-> 1]

\* lf.CompositeModel.__init__ refuses operands that share a parameter name
NameCollision(left, right) ==
    Range(param_names(left)) \cap Range(param_names(right)) # {}

\* Lines 227-233, self + other: the composite, or what is raised
Add(self, other) ==
    IF NameCollision(self, other) THEN [raised |-> "NameError"]
    ELSE IF self.n_dims # other.n_dims THEN [raised |-> "AssertionError"]
    ELSE [raised |-> "",
          comp |-> [XAdditiveCompositeModel(self, other) EXCEPT !.n_dims = other.n_dims]]

\* The value of a leaf at x: a peak is its amplitude at its center and 0
\* elsewhere, an affine background is slope * x + const
LeafEval(m, params, x) ==
    IF m.shape = "peak"
    THEN IF x = params[<<m.prefix, "center">>] THEN params[<<m.prefix, "amplitude">>] ELSE 0
    ELSE params[<<m.prefix, "slope">>] * x + params[<<m.prefix, "const">>]

\* Model.eval; a composite applies its operator to the values of its operands
RECURSIVE eval(_, _, _)
eval(m, params, x) ==
    IF m.kind = "Model" THEN LeafEval(m, params, x)
    ELSE IF m.op = "add"
         THEN eval(m.left, params, x) + eval(m.right, params, x)
         ELSE eval(m.left, params, x) * eval(m.right, params, x)

\* composite: the model built so far, and the operands of the + that built it
InitAdd ==
    /\ prog = "__add__"
    /\ PoolIdle
    /\ GuessFitIdle
    /\ pc = "idle"
    /\ \E n \in 2..MaxOperands : \E ms \in [1..n -> LeafModels] :
         /\ composite = <<[self |-> <<>>, other |-> <<>>, comp |-> ms[1]]>>
         /\ operands = Tail(ms)
    /\ arr = None
    /\ UnpackIdle
    /\ FitBandsIdle
    /\ IterateIdle
    /\ PatternedIdle

\* composite + model, or model + composite, with the next model at hand
AddNext ==
    /\ prog = "__add__"
    /\ pc = "idle"
    /\ operands # <<>>
    /\ \E on_the_left \in BOOLEAN :
         LET self == IF on_the_left THEN composite[1].comp ELSE Head(operands)
             other == IF on_the_left THEN Head(operands) ELSE composite[1].comp
             sum == Add(self, other)
         IN  IF sum.raised # ""
             THEN /\ pc' = "raised " \o sum.raised
                  /\ composite' = <<[self |-> <<self>>, other |-> <<other>>,
                                     comp |-> composite[1].comp]>>
             ELSE /\ pc' = pc
                  /\ composite' = <<[self |-> <<self>>, other |-> <<other>>,
                                     comp |-> sum.comp]>>
    /\ operands' = Tail(operands)
    /\ UNCHANGED <<prog, arr, unpackVars, fitVars, iterVars, patternedVars, poolVars, guessVars>>

NextAdd == AddNext

SpecAdd == InitAdd /\ [][NextAdd]_vars

(***************************************************************************)
(* fit_patterned_bands                                                     *)
(***************************************************************************)
\* float("nan"); no number of the model comes near it
NaN == -1000

\* np.zeros, at one cell of the residual (line 390)
Zeros == [kind |-> "zeros"]

\* x + y, x - y in floats
FAdd(x, y) == IF x = NaN \/ y = NaN THEN NaN ELSE x + y

FSub(x, y) == IF x = NaN \/ y = NaN THEN NaN ELSE x - y

\* x / y * z in floats, exact on the control points of the model; 0 / 0 of
\* numpy floats is nan
DivMul(x, y, z) == IF y = 0 THEN NaN ELSE (x * z) \div y

\* d[k] = v on a dict
DictSet(d, k, v) == [x \in DOMAIN d \cup {k} |-> IF x = k THEN v ELSE d[x]]

\* d.get(k, default)
DictGet(d, k, default) == IF k \in DOMAIN d THEN d[k] ELSE default

\* The control points of a band, as (eV, phi) pairs
ControlPoints ==
    { << <<0, 0>>, <<2, 2>> >>,
      << <<0, 0>>, <<2, 2>>, <<4, 0>> >>,
      << <<4, 4>>, <<6, 6>> >>,
      << <<1, 0>>, <<1, 2>> >> }

\* The "params" of a band description: <<>> when the key is absent
BandParams ==
    { <<>>,
      <<[sigma |-> [min |-> 0]]>>,
      <<[stray |-> 2, amplitude |-> [min |-> 0]]>> }

BandDescriptions(name) ==
    { [name |-> name, band |-> "Band", dims |-> <<"eV", "phi">>,
       params |-> ps, points |-> pts] : ps \in BandParams, pts \in ControlPoints }

\* The band sets of the model: none, one band, or a band next to a plain one
BandSets ==
    { <<>> } \cup { <<a>> : a \in BandDescriptions("a") }
             \cup { <<a, [name |-> "b", band |-> "Band", dims |-> <<"eV", "phi">>,
                          params |-> <<>>, points |-> << <<0, 0>>, <<2, 2>> >>]>> :
                    a \in BandDescriptions("a") }

\* Lines 411-413
_is_between(x, y0, y1) ==
    LET lo == IF y0 <= y1 THEN y0 ELSE y1
        hi == IF y0 <= y1 THEN y1 ELSE y0
    IN  lo <= x /\ x <= hi

\* Lines 564-579 with the descending branch measuring from point_low
FragmentFromLow(coord, coord_index, point_low, point_high) ==
    LET coord_other_index == 3 - coord_index
        check_coord_low == point_low[coord_index]
        check_coord_high == point_high[coord_index]
    IN  IF check_coord_low < check_coord_high
        THEN FAdd(DivMul(coord - check_coord_low, check_coord_high - check_coord_low,
                         point_high[coord_other_index] - point_low[coord_other_index]),
                  point_low[coord_other_index])
        ELSE FAdd(DivMul(coord - check_coord_high, check_coord_low - check_coord_high,
                         point_low[coord_other_index] - point_high[coord_other_index]),
                  point_low[coord_other_index])

\* Lines 559-579 for one bracketing pair: the center that is yielded.
\* coord_index counts from 1 here, so 1 - coord_index is 3 - coord_index
Fragment(coord, coord_index, point_low, point_high) ==
    LET coord_other_index == 3 - coord_index
        check_coord_low == point_low[coord_index]
        check_coord_high == point_high[coord_index]
    IN  IF check_coord_low < check_coord_high
        THEN FAdd(DivMul(coord - check_coord_low, check_coord_high - check_coord_low,
                         point_high[coord_other_index] - point_low[coord_other_index]),
                  point_low[coord_other_index])
        ELSE FAdd(DivMul(coord - check_coord_high, check_coord_low - check_coord_high,
                         point_low[coord_other_index] - point_high[coord_other_index]),
                  point_high[coord_other_index])

\* Lines 558-562: the consecutive pairs of points that bracket coord, in order
BracketingPairs(coord, coord_index, points) ==
    SelectSeq([i \in 1..(Len(points) - 1) |-> i],
              LAMBDA i : _is_between(coord, points[i][coord_index],
                                     points[i + 1][coord_index]))

\* Lines 546-579, list(_interpolate_intersecting_fragments(...)): what it
\* yields, or what it raises.  x / 0 raises when coord is a Python float and
\* is nan when coord is a numpy float
_interpolate_intersecting_fragments(coord, coord_index, points, python_float) ==
    IF points = <<>> THEN [raised |-> "IndexError", yields |-> <<>>]
    ELSE LET pairs == BracketingPairs(coord, coord_index, points)
             degenerate(i) == points[i][coord_index] = points[i + 1][coord_index]
         IN  IF python_float /\ \E k \in DOMAIN pairs : degenerate(pairs[k])
             THEN [raised |-> "ZeroDivisionError", yields |-> <<>>]
             ELSE [raised |-> "",
                   yields |-> [k \in DOMAIN pairs |->
                                  <<coord, Fragment(coord, coord_index, points[pairs[k]],
                                                    points[pairs[k] + 1])>>]]

\* np.percentile(near_center.values, (20, 80)): high - low, of the values of
\* the marginal within 1.2 * center_stray of center (lines 615-628)
PercentileSpread(marginal, center, center_stray) ==
    [spread_of |-> marginal.at, around |-> center, within |-> center_stray]

\* An amplitude hint that is there already is kept
_build_params_keeping_amplitude(params, center, center_stray, marginal) ==
    IF center_stray = <<>>
    THEN DictSet(params, "center", [value |-> center])
    ELSE LET s == center_stray[1]
             p1 == DictSet(params, "center",
                           [value |-> center, min |-> FSub(center, s),
                            max |-> FAdd(center, s)])
             p2 == DictSet(p1, "sigma", DictSet(DictGet(p1, "sigma", <<>>), "value", s))
         IN  IF marginal = <<>> \/ ("amplitude" \in DOMAIN p2 /\ "value" \in DOMAIN p2.amplitude)
             THEN p2
             ELSE DictSet(p2, "amplitude",
                          DictSet(DictGet(p2, "amplitude", <<>>), "value",
                                  PercentileSpread(marginal[1], center, s)))

\* Lines 596-629; params is the dict after the call, which is also what is
\* returned.  center_stray and marginal are <<>> for None
_build_params(params, center, center_stray, marginal) ==
    IF center_stray = <<>>
    THEN DictSet(params, "center", [value |-> center])
    ELSE LET s == center_stray[1]
             \* lines 602-611
             p1 == DictSet(params, "center",
                           [value |-> center, min |-> FSub(center, s),
                            max |-> FAdd(center, s)])
             \* lines 612-613
             p2 == DictSet(p1, "sigma", DictSet(DictGet(p1, "sigma", <<>>), "value", s))
         IN  IF marginal = <<>> THEN p2
             ELSE \* lines 627-628
                  DictSet(p2, "amplitude",
                          DictSet(DictGet(p2, "amplitude", <<>>), "value",
                                  PercentileSpread(marginal[1], center, s)))

\* Lines 325-337: the dict that the calls of _build_params leave behind, the
\* comprehension passing the same dict for each of the first n locations
RECURSIVE BuiltParams(_, _, _, _, _)
BuiltParams(params, locations, n, global_stray, marginal) ==
    IF n = 0 THEN params
    ELSE LET before == BuiltParams(params, locations, n - 1, global_stray, marginal)
         IN  _build_params(before, locations[n][2],
                           \* line 332: params.get("stray", stray)
                           IF "stray" \in DOMAIN before THEN <<before.stray>>
                           ELSE global_stray,
                           <<marginal>>)

\* Line 316: next(d for d in dims if d in coord_dict); <<>> when there is none
CoordName(dims, coord_dict) ==
    LET found == SelectSeq(dims, LAMBDA d : d \in DOMAIN coord_dict)
    IN  SubSeq(found, 1, 1)

\* arr.dims.index(coord_name), counted from 1
IndexOf(l, x) == CHOOSE i \in DOMAIN l : l[i] = x /\ \A j \in 1..(i - 1) : l[j] # x

\* Lines 299-337 for one band description: the partial bands, the locations
\* they were built from, the description's params afterwards, or what is
\* raised.  Every partial band holds the one dict that _build_params updates
resolve_partial_bands_from_description(a, coord_dict, marginal, description, global_stray, python_float) ==
    LET \* lines 311-312
        params == IF description.params = <<>> THEN <<>> ELSE description.params[1]
        coord_name == CoordName(description.dims, coord_dict)
    IN  IF coord_name = <<>>
        THEN [raised |-> "StopIteration", locations |-> <<>>, partial_bands |-> <<>>,
              params_after |-> description.params]
        ELSE LET found == _interpolate_intersecting_fragments(
                              coord_dict[coord_name[1]], IndexOf(a.dims, coord_name[1]),
                              description.points, python_float)
                 partial_band_locations == found.yields
                 built == BuiltParams(params, partial_band_locations,
                                      Len(partial_band_locations), global_stray, marginal)
             IN  IF found.raised # ""
                 THEN [raised |-> found.raised, locations |-> <<>>,
                       partial_bands |-> <<>>, params_after |-> description.params]
                 ELSE [raised |-> "",
                       locations |-> partial_band_locations,
                       partial_bands |->
                           [i \in DOMAIN partial_band_locations |->
                               [band |-> description.band,
                                name |-> description.name \o "_" \o ToString(i - 1),
                                params |-> built]],
                       params_after |->
                           IF description.params = <<>> THEN <<>> ELSE <<built>>]

\* Lines 354-361: the comprehension over band_set.values(), up to and
\* including the n-th description; it stops at the first one that raises
RECURSIVE ResolveBandSet(_, _, _, _, _, _, _)
ResolveBandSet(a, coord_dict, marginal, descriptions, n, global_stray, python_float) ==
    IF n = 0 THEN [raised |-> "", bands |-> <<>>]
    ELSE LET before == ResolveBandSet(a, coord_dict, marginal, descriptions, n - 1,
                                      global_stray, python_float)
         IN  IF before.raised # "" THEN before
             ELSE LET this == resolve_partial_bands_from_description(
                                  a, coord_dict, marginal, descriptions[n],
                                  global_stray, python_float)
                  IN  [raised |-> this.raised, bands |-> Append(before.bands, this)]

\* The class of the fit model of a band class (Band.fit_cls)
FitCls(band) == IF band = "AffineBackgroundBand" THEN "affine" ELSE "peak"

\* Every key of the params is set as a hint, 'stray' too
_instantiate_band_with_stray(partial_band) ==
    IF partial_band.band = "False" THEN [raised |-> "TypeError"]
    ELSE [raised |-> "",
          built |-> [kind |-> "Model", shape |-> FitCls(partial_band.band),
                     prefix |-> partial_band.name, n_dims |-> 1,
                     param_hints |-> partial_band.params]]

\* Lines 416-423; partial_band["band"] is called, which False cannot be
_instantiate_band(partial_band) ==
    IF partial_band.band = "False" THEN [raised |-> "TypeError"]
    ELSE [raised |-> "",
          built |-> [kind |-> "Model", shape |-> FitCls(partial_band.band),
                     prefix |-> partial_band.name, n_dims |-> 1,
                     param_hints |->
                         [k \in DOMAIN partial_band.params \ {"stray"} |->
                             partial_band.params[k]]]]

\* Line 374: functools.reduce(lambda x, y: x + y, internal_models), over the
\* first n models
RECURSIVE ReduceAdd(_, _)
ReduceAdd(internal_models, n) ==
    IF n = 1 THEN [raised |-> "", comp |-> internal_models[1]]
    ELSE LET before == ReduceAdd(internal_models, n - 1)
         IN  IF before.raised # "" THEN before
             ELSE Add(before.comp, internal_models[n])

\* A parameter hint of the models is nan
HasNaN(internal_models) ==
    \E i \in DOMAIN internal_models :
        LET hints == internal_models[i].param_hints
        IN  "center" \in DOMAIN hints /\ hints.center.value = NaN

\* arr.G.iterate_axis(free_directions): a coordinate dict and the marginal at
\* it for every combination of the coordinates of the directions.  The order
\* in which they are yielded is left open: PatternedSlice takes them in any
\* order
iterate_axis(a, dirs) ==
    LET selectors == product([i \in 1..Len(dirs) |-> a.coords[dirs[i]]])
    IN  [i \in 1..Len(selectors) |->
            [coords |-> ZipCoords(dirs, selectors[i]),
             marginal |-> Sel(a, ZipCoords(dirs, selectors[i]))]]

\* A slice without a fit is passed over, its cell is not written
WriteCellUnlessNone(grid, cell, value) ==
    IF value = NoFit THEN grid ELSE [grid EXCEPT ![cell] = Append(@, value)]

\* Lines 371, 383: band_results.loc[coord_dict] = value
WriteCell(grid, cell, value) == [grid EXCEPT ![cell] = Append(@, value)]

\* The background joins the bands of every slice, bracketed or not
WithBackgroundAlways(partial_bands, background_band) ==
    Append(partial_bands, <<[band |-> background_band, name |-> "", params |-> <<>>]>>)

\* Lines 365-366
WithBackground(partial_bands, background_band) ==
    IF background_band # None /\ partial_bands # <<>>
    THEN Append(partial_bands, <<[band |-> background_band, name |-> "", params |-> <<>>]>>)
    ELSE partial_bands

\* The slices that the loop of lines 348-383 has taken up
Processed == { patterned_swept[k].cell : k \in DOMAIN patterned_swept }

InitPatterned ==
    /\ prog = "fit_patterned_bands"
    /\ PoolIdle
    /\ GuessFitIdle
    /\ pc = "start"
    /\ arr \in { a \in Arrays : a.dims = <<"eV", "phi">> }
    /\ fit_direction \in Range(arr.dims)
    /\ arr.coords[fit_direction] = <<0>>
    /\ band_set \in BandSets
    /\ band_set_at_call = band_set
    /\ stray \in { <<>>, <<1>> }
    /\ background \in { "True", "False" }
    /\ dataset \in BOOLEAN
    /\ free_directions = <<>>
    /\ patterned_results = <<>>
    /\ patterned_swept = <<>>
    /\ residual = <<>>
    /\ residual_log = <<>>
    /\ UnpackIdle
    /\ FitBandsIdle
    /\ IterateIdle
    /\ AddIdle

\* Lines 291-345: the background class, the free directions, the empty grid
PatternedStart ==
    /\ prog = "fit_patterned_bands"
    /\ pc = "start"
    /\ background' = IF background = "True" THEN "AffineBackgroundBand" ELSE background
    /\ IF fit_direction \notin Range(arr.dims)
       THEN \* line 297: list.remove(x), x not in list
            /\ pc' = "raised ValueError"
            /\ UNCHANGED <<free_directions, patterned_results>>
       ELSE /\ free_directions' = ListRemove(arr.dims, fit_direction)
            /\ patterned_results' =
                   [i \in DOMAIN iterate_axis(arr, free_directions') |-> <<>>]
            /\ pc' = "sweep"
    /\ UNCHANGED <<prog, arr, band_set, band_set_at_call, fit_direction, stray, dataset,
                   patterned_swept, residual, residual_log, unpackVars, fitVars,
                   iterVars, addVars, poolVars, guessVars>>

\* band_set after the descriptions gone through have had their params updated
BandSetAfter(descriptions, resolved_bands) ==
    [n \in DOMAIN descriptions |->
        IF n \in DOMAIN resolved_bands
        THEN [descriptions[n] EXCEPT !.params = resolved_bands[n].params_after]
        ELSE descriptions[n]]

\* One pass of the loop body, lines 354-383, on a slice that iterate_axis has
\* not yielded yet.  The coordinate is a Python float or a numpy float
\* (python_float), and a fit on a nan hint may raise or return (fit_raises)
PatternedSlice ==
    /\ prog = "fit_patterned_bands"
    /\ pc = "sweep"
    /\ \E slices \in { iterate_axis(arr, free_directions) } :
       \E cell \in DOMAIN slices \ Processed :
       \E python_float \in BOOLEAN :
       \E resolved_bands \in
             { ResolveBandSet(arr, slices[cell].coords, slices[cell].marginal, band_set,
                              Len(band_set), stray, python_float) } :
       \* line 363
       \E bracketed \in
             { SelectSeq([n \in DOMAIN resolved_bands.bands |->
                              resolved_bands.bands[n].partial_bands],
                         LAMBDA p : Len(p) > 0) } :
       \E partial_bands \in { WithBackground(bracketed, background) } :
       \* line 368
       \E instantiated \in
             { [i \in DOMAIN Concat(partial_bands) |->
                   _instantiate_band(Concat(partial_bands)[i])] } :
       \E internal_models \in
             { IF \E i \in DOMAIN instantiated : instantiated[i].raised # ""
               THEN <<>>
               ELSE [i \in DOMAIN instantiated |-> instantiated[i].built] } :
       \E fit_raises \in (IF HasNaN(internal_models) THEN BOOLEAN ELSE {FALSE}) :
         LET locals == [cell |-> cell,
                        coord_dict |-> slices[cell].coords,
                        band_set_before |-> band_set,
                        locations |-> [n \in DOMAIN resolved_bands.bands |->
                                          resolved_bands.bands[n].locations],
                        partial_bands |-> partial_bands,
                        internal_models |-> internal_models,
                        fit_run |-> FALSE,
                        raised |-> ""]
         IN  /\ band_set' = BandSetAfter(band_set, resolved_bands.bands)
             /\ IF resolved_bands.raised # ""
                THEN /\ pc' = "raised " \o resolved_bands.raised
                     /\ patterned_swept' =
                            Append(patterned_swept,
                                   [locals EXCEPT !.raised = resolved_bands.raised])
                     /\ UNCHANGED patterned_results
                ELSE IF \E i \in DOMAIN instantiated : instantiated[i].raised # ""
                THEN /\ pc' = "raised TypeError"
                     /\ patterned_swept' =
                            Append(patterned_swept, [locals EXCEPT !.raised = "TypeError"])
                     /\ UNCHANGED patterned_results
                ELSE IF internal_models = <<>>
                THEN \* lines 370-372
                     /\ patterned_results' = WriteCell(patterned_results, cell, NoFit)
                     /\ patterned_swept' = Append(patterned_swept, locals)
                     /\ pc' = pc
                ELSE \E composite_model \in
                           { ReduceAdd(internal_models, Len(internal_models)) } :
                     IF composite_model.raised # ""
                     THEN /\ pc' = "raised " \o composite_model.raised
                          /\ patterned_swept' =
                                 Append(patterned_swept,
                                        [locals EXCEPT !.raised = composite_model.raised])
                          /\ UNCHANGED patterned_results
                     ELSE IF fit_raises
                     THEN \* line 376: the fit fails on a nan parameter
                          /\ pc' = "raised ValueError"
                          /\ patterned_swept' =
                                 Append(patterned_swept,
                                        [locals EXCEPT !.raised = "ValueError"])
                          /\ UNCHANGED patterned_results
                     ELSE \* lines 376-383
                          /\ patterned_results' =
                                 WriteCell(patterned_results, cell,
                                           [kind |-> "fit", at |-> slices[cell].coords,
                                            model |-> composite_model.comp])
                          /\ patterned_swept' =
                                 Append(patterned_swept, [locals EXCEPT !.fit_run = TRUE])
                          /\ pc' = pc
    /\ UNCHANGED <<prog, arr, band_set_at_call, fit_direction, stray, background, dataset,
                   free_directions, residual, residual_log, unpackVars, fitVars,
                   iterVars, addVars, poolVars, guessVars>>

\* Lines 385-390: the sweep is over; band_results is returned, or the
\* residual is made, all zeros
PatternedSwept ==
    /\ prog = "fit_patterned_bands"
    /\ pc = "sweep"
    /\ Processed = DOMAIN patterned_results
    /\ IF ~dataset
       THEN /\ pc' = "returned DataArray"
            /\ UNCHANGED residual
       ELSE /\ pc' = "residual"
            /\ residual' = [i \in DOMAIN patterned_results |-> Zeros]
    /\ UNCHANGED <<prog, arr, band_set, band_set_at_call, fit_direction, stray, background,
                   dataset, free_directions, patterned_results, patterned_swept,
                   residual_log, unpackVars, fitVars, iterVars, addVars,
                   poolVars, guessVars>>

\* A store that fails leaves the cell half written
StoreResidualTorn(res, coords, fit_item, stored) ==
    [res EXCEPT ![coords] = [kind |-> "residual",
                             of |-> IF stored THEN fit_item.at ELSE <<>>]]

\* Lines 397-398: residual.loc[coords] = fit_item.residual under
\* contextlib.suppress(Exception); a store that raises has written nothing
StoreResidual(res, coords, fit_item, stored) ==
    IF stored THEN [res EXCEPT ![coords] = [kind |-> "residual", of |-> fit_item.at]]
    ELSE res

\* One pass of the loop body, lines 392-398, on the next cell of band_results;
\* storing the residual of a fit may raise, which is suppressed
PatternedResidual ==
    /\ prog = "fit_patterned_bands"
    /\ pc = "residual"
    /\ Len(residual_log) < Len(patterned_results)
    /\ LET coords == Len(residual_log) + 1
           fit_item == patterned_results[coords][Len(patterned_results[coords])]
       IN  IF fit_item = NoFit
           THEN /\ residual_log' = Append(residual_log, "continue")
                /\ UNCHANGED residual
           ELSE \E stored \in BOOLEAN :
                  /\ residual' = StoreResidual(residual, coords, fit_item, stored)
                  /\ residual_log' =
                         Append(residual_log, IF stored THEN "stored" ELSE "suppressed")
    /\ UNCHANGED <<prog, pc, arr, band_set, band_set_at_call, fit_direction, stray,
                   background, dataset, free_directions, patterned_results,
                   patterned_swept, unpackVars, fitVars, iterVars, addVars,
                   poolVars, guessVars>>

\* Lines 392, 400-408: every cell has been visited, the dataset is returned
PatternedReturn ==
    /\ prog = "fit_patterned_bands"
    /\ pc = "residual"
    /\ Len(residual_log) = Len(patterned_results)
    /\ pc' = "returned Dataset"
    /\ UNCHANGED <<prog, arr, patternedVars, unpackVars, fitVars, iterVars, addVars,
                   poolVars, guessVars>>

NextPatterned ==
    PatternedStart \/ PatternedSlice \/ PatternedSwept \/ PatternedResidual
        \/ PatternedReturn

SpecPatterned == InitPatterned /\ [][NextPatterned]_vars

\* The two sweeps: fit_bands and fit_patterned_bands
InitSweep == InitFitBands \/ InitPatterned

NextSweep == NextFitBands \/ NextPatterned

SpecSweep == InitSweep /\ [][NextSweep]_vars

(***************************************************************************)
(* HotPool (src/arpes/fits/hot_pool.py)                                    *)
(***************************************************************************)
\* Operations on hot_pool in one run
MaxPoolOps == 6

\* A Pool is known by its position in the list of the Pools made; a read
\* that makes a Pool whatever the holder holds
HotPool_pool_eager(self, made) ==
    [returned |-> Len(made) + 1,
     self |-> [_pool |-> <<Len(made) + 1>>],
     made |-> Append(made, "open")]

\* Lines 17-31, the property pool: what it returns, the instance and the
\* Pools made afterwards
HotPool_pool(self, made) ==
    IF self._pool # <<>>
    THEN [returned |-> self._pool[1], self |-> self, made |-> made]
    ELSE [returned |-> Len(made) + 1,
          self |-> [_pool |-> <<Len(made) + 1>>],
          made |-> Append(made, "open")]

\* Lines 33-41, __del__: the instance and the Pools made afterwards
HotPool_del(self, made) ==
    IF self._pool # <<>>
    THEN [self |-> [_pool |-> <<>>], made |-> [made EXCEPT ![self._pool[1]] = "closed"]]
    ELSE [self |-> self, made |-> made]

\* Line 44: hot_pool = HotPool(), _pool being the class attribute of line 15
InitPool ==
    /\ prog = "hot_pool"
    /\ pc = "idle"
    /\ hot_pool = [_pool |-> <<>>]
    /\ pools_made = <<>>
    /\ pool_log = <<>>
    /\ arr = None
    /\ UnpackIdle
    /\ FitBandsIdle
    /\ IterateIdle
    /\ PatternedIdle
    /\ AddIdle
    /\ GuessFitIdle

\* hot_pool.pool is read
PoolRead ==
    /\ prog = "hot_pool"
    /\ Len(pool_log) < MaxPoolOps
    /\ LET read == HotPool_pool(hot_pool, pools_made)
       IN  /\ hot_pool' = read.self
           /\ pools_made' = read.made
           /\ pool_log' = Append(pool_log,
                  [op |-> "read", returned |-> <<read.returned>>,
                   self_before |-> hot_pool, made_before |-> pools_made,
                   self_after |-> read.self, made_after |-> read.made])
    /\ UNCHANGED <<prog, pc, arr, unpackVars, fitVars, iterVars, patternedVars, addVars,
                   guessVars>>

\* hot_pool.__del__() is called
PoolDel ==
    /\ prog = "hot_pool"
    /\ Len(pool_log) < MaxPoolOps
    /\ LET after == HotPool_del(hot_pool, pools_made)
       IN  /\ hot_pool' = after.self
           /\ pools_made' = after.made
           /\ pool_log' = Append(pool_log,
                  [op |-> "del", returned |-> <<>>,
                   self_before |-> hot_pool, made_before |-> pools_made,
                   self_after |-> after.self, made_after |-> after.made])
    /\ UNCHANGED <<prog, pc, arr, unpackVars, fitVars, iterVars, patternedVars, addVars,
                   guessVars>>

NextPool == PoolRead \/ PoolDel

SpecPool == InitPool /\ [][NextPool]_vars

(***************************************************************************)
(* XModelMixin.guess_fit                                                   *)
(* (src/arpes/fits/fit_models/x_model_mixin.py)                            *)
(***************************************************************************)
\* Line 160
assert_msg == "You cannot transpose (invert) a multidimensional array (scalar field)."

\* The data of a call: an xr.DataArray or an np.ndarray, with its dimensions
GuessFitData == { [is_xarray |-> x, dims |-> ds] : x \in BOOLEAN, ds \in DimChoices }

\* Lines 265-316, _real_data_etc_from_xarray with dimension_order None: the
\* coordinates are known by the dimension they belong to
_real_data_etc_from_xarray(self, data) ==
    IF Len(data.dims) # self.n_dims
    THEN [raised |-> "AssertionError", message |-> ""]
    ELSE IF self.n_dims = 1
    THEN [raised |-> "", message |-> "",
          real_data |-> [kind |-> "values", of |-> ""],
          flat_data |-> [kind |-> "values", of |-> ""],
          coord_values |-> <<[key |-> "x",
                              value |-> [kind |-> "coords", of |-> data.dims[1]]]>>]
    ELSE [raised |-> "", message |-> "",
          real_data |-> [kind |-> "values", of |-> ""],
          flat_data |-> [kind |-> "values.ravel()", of |-> ""],
          coord_values |-> [i \in DOMAIN data.dims |->
                               [key |-> data.dims[i],
                                value |-> [kind |-> "coords", of |-> data.dims[i]]]]]

\* Lines 140-149
GuessFitPrepared(self, data, x) ==
    IF data.is_xarray THEN _real_data_etc_from_xarray(self, data)
    ELSE [raised |-> "", message |-> "",
          real_data |-> [kind |-> "values", of |-> ""],
          flat_data |-> [kind |-> "values", of |-> ""],
          coord_values |-> IF x = <<>> THEN <<>>
                           ELSE <<[key |-> "x", value |-> x[1]]>>]

\* Lines 140-168 of guess_fit: real_data, flat_data and coord_values as they
\* are handed to guess and fit (lines 174-193), or what is raised before
guess_fit(self, data, x, transpose) ==
    LET prepared == GuessFitPrepared(self, data, x)
    IN  IF prepared.raised # "" \/ ~transpose THEN prepared
        \* lines 161-164
        ELSE IF ~(Len(data.dims) # 1)
        THEN [raised |-> "AssertionError", message |-> assert_msg]
        \* line 165: next() of an empty iterator
        ELSE IF prepared.coord_values = <<>>
        THEN [raised |-> "StopIteration", message |-> ""]
        \* lines 165-168
        ELSE LET cached_coordinate == prepared.coord_values[1].value
             IN  [raised |-> "", message |-> "",
                  real_data |-> cached_coordinate,
                  flat_data |-> cached_coordinate,
                  coord_values |->
                      [prepared.coord_values EXCEPT ![1].value = prepared.real_data]]

InitGuessFit ==
    /\ prog = "guess_fit"
    /\ pc = "start"
    /\ \E n \in {1, 2, 3} : \E data \in GuessFitData :
       \E x \in { <<>>, <<[kind |-> "x", of |-> ""]>> } : \E transpose \in BOOLEAN :
         guess_fit_args = [self |-> [n_dims |-> n], data |-> data,
                           x |-> IF data.is_xarray THEN <<>> ELSE x,
                           transpose |-> transpose]
    /\ guess_fit_locals = None
    /\ arr = None
    /\ UnpackIdle
    /\ FitBandsIdle
    /\ IterateIdle
    /\ PatternedIdle
    /\ AddIdle
    /\ PoolIdle

\* model.guess_fit(data, transpose=transpose), up to the fit of line 187
GuessFitCall ==
    /\ prog = "guess_fit"
    /\ pc = "start"
    /\ guess_fit_locals' = guess_fit(guess_fit_args.self, guess_fit_args.data,
                                     guess_fit_args.x, guess_fit_args.transpose)
    /\ pc' = IF guess_fit_locals'.raised # "" THEN "raised " \o guess_fit_locals'.raised
             ELSE "fit"
    /\ UNCHANGED <<prog, arr, guess_fit_args, unpackVars, fitVars, iterVars,
                   patternedVars, addVars, poolVars>>

NextGuessFit == GuessFitCall

SpecGuessFit == InitGuessFit /\ [][NextGuessFit]_vars

(***************************************************************************)
(* The module as a whole: one of its functions is called.                  *)
(***************************************************************************)
Init ==
    \/ InitUnpack \/ InitFitBands \/ InitIterate \/ InitPatterned \/ InitAdd
    \/ InitPool \/ InitGuessFit

Next ==
    \/ NextUnpack \/ NextFitBands \/ NextIterate \/ NextPatterned \/ NextAdd
    \/ NextPool \/ NextGuessFit

Spec == Init /\ [][Next]_vars

(***************************************************************************)
(* Properties of unpack_bands_from_fit, checked under SpecUnpack.          *)
(***************************************************************************)
\* The bijections of 1..k, as a set
PermSet(k) == { f \in [1..k -> 1..k] : \A i, j \in 1..k : f[i] = f[j] => i = j }

\* p comes no later than q in lexicographic order, the order in which
\* itertools.permutations(range(k)) yields
LexLeq(p, q) ==
    \/ p = q
    \/ \E i \in DOMAIN p : /\ \A j \in 1..(i - 1) : p[j] = q[j]
                           /\ p[i] < q[i]

\* The sum over i of m[i, p[i]]
MatchedSum(m, p) == SumTo([i \in DOMAIN p |-> m[i][p[i]]], Len(p))

LastResolved == resolved[Len(resolved)]

IdentityArrangement(k) == [i \in 1..k |-> i]

\* C1: the permutation behind a slice's assignment has the minimal sum of
\* dist_mat[i, p[i]] over all k! permutations, and is the first such one in
\* the order of itertools.permutations(range(k)).
C1_FirstMinimalPermutation ==
    resolved # <<>> =>
        LET r == LastResolved
            k == Len(prefixes)
            p == r.best_arrangement
        IN  /\ p \in PermSet(k)
            /\ \A q \in PermSet(k) :
                 /\ MatchedSum(r.dist_mat, p) <= MatchedSum(r.dist_mat, q)
                 /\ MatchedSum(r.dist_mat, q) = MatchedSum(r.dist_mat, p) => LexLeq(p, q)

\* A slice of three bands whose minimum is reached by two permutations, the
\* chosen one not the identity.
C1_Witness ==
    /\ Len(resolved) >= 2
    /\ Len(prefixes) = 3
    /\ LET r == LastResolved
       IN  /\ r.best_arrangement # IdentityArrangement(3)
           /\ \E q \in PermSet(3) :
                /\ q # r.best_arrangement
                /\ MatchedSum(r.dist_mat, q) = MatchedSum(r.dist_mat, r.best_arrangement)

\* C2: every recorded assignment is a permutation of the slice's own fitted
\* prefixes: as long as the number of bands, each prefix of the fit once.
C2_AssignmentIsPermutation ==
    /\ \A s \in DOMAIN identified_band_results :
         LET a == identified_band_results[s].value
             own == DOMAIN band_results[s].params
         IN  /\ Len(a) = Len(prefixes)
             /\ Range(a) \subseteq own
             /\ own \subseteq Range(a)
             /\ \A i, j \in DOMAIN a : a[i] = a[j] => i = j
    /\ \A e \in DOMAIN identified_by_coordinate :
         LET a == identified_by_coordinate[e].prefixes
         IN  /\ Len(a) = Len(prefixes)
             /\ Range(a) = DOMAIN identified_by_coordinate[e].fit.params
             /\ \A i, j \in DOMAIN a : a[i] = a[j] => i = j

\* All slices done, three bands, and the last assignment is not the fit's order.
C2_Witness ==
    /\ pc = "identified"
    /\ Len(prefixes) = 3
    /\ Len(identified_band_results) = 3
    /\ identified_band_results[3].value # prefixes

\* The minimum-distance matching of the slice is unique: no other permutation
\* reaches the minimal sum.
UniqueMatching(r) ==
    \A q \in PermSet(Len(r.best_arrangement)) :
        q # r.best_arrangement =>
            MatchedSum(r.dist_mat, q) > MatchedSum(r.dist_mat, r.best_arrangement)

\* C3 (as claimed): for a slice after the first, the assignment holds at the
\* reference's band position p[i] the slice's own component prefixes[i], p
\* being the minimum-distance matching; stated for the slices whose matching
\* is unique, where no tie-break enters.
C3_MatchedComponentAtBandPosition ==
    (resolved # <<>> /\ ~LastResolved.first /\ UniqueMatching(LastResolved)) =>
        \A i \in DOMAIN prefixes :
            LastResolved.ordered_prefixes[LastResolved.best_arrangement[i]] = prefixes[i]

\* C4: the first slice's assignment is the order of its fit's components, and
\* the slice is the first entry of identified_by_coordinate.
C4_FirstSliceIdentity ==
    resolved # <<>> =>
        LET r == resolved[1]
        IN  /\ r.first
            /\ r.pool = <<>>
            /\ r.ordered_prefixes = r.fit_result.components
            /\ identified_band_results[1].value = r.fit_result.components
            /\ first_coordinate = r.frozen_coord[1]
            /\ identified_by_coordinate[1] =
                   [coord |-> r.frozen_coord, prefixes |-> r.fit_result.components,
                    fit |-> r.fit_result]

\* The first slice has two components with the same peak (a tie between the
\* identity and a swap), and later slices have been resolved after it.
C4_Witness ==
    /\ Len(resolved) = 3
    /\ Len(prefixes) = 3
    /\ resolved[1].fit_result.params["a_"] = resolved[1].fit_result.params["b_"]
    /\ resolved[3].ordered_prefixes # prefixes

C16_BandReadsAssignedPrefix ==
    pc = "returned" =>
      /\ Len(bands) = Len(prefixes)
      /\ \A i \in DOMAIN bands :
          \A param \in {"center", "amplitude", "sigma"} :
            LET value_array == bands[i].data[param]
                stderr_array == bands[i].data[param \o "_stderr"]
            IN  /\ value_array.coords = axis
                /\ stderr_array.coords = axis
                /\ value_array.dims = stderr_array.dims
                /\ DOMAIN value_array.values = DOMAIN identified_band_results
                /\ DOMAIN stderr_array.values = DOMAIN identified_band_results
                /\ \A cell \in DOMAIN identified_band_results :
                      LET prefix == identified_band_results[cell].value[i]
                          fitted == band_results[cell].params[prefix]
                      IN  /\ value_array.values[cell] = fitted[param]
                          /\ stderr_array.values[cell] = fitted[param \o "_stderr"]

\* Bands were returned from a grid with a cell whose assignment is not the
\* order of the template, and at that cell a band reads a parameter that the
\* template's prefix would have read differently
C16_Witness ==
    /\ pc = "returned"
    /\ \E cell \in DOMAIN identified_band_results : \E i \in DOMAIN prefixes :
         /\ identified_band_results[cell].value[i] # prefixes[i]
         /\ bands[i].data.center.values[cell]
                # band_results[cell].params[prefixes[i]].center

\* C17: a grid with a None cell is unpacked without raising.
C17_MissingCellDoesNotRaise ==
    (\E cell \in DOMAIN band_results : band_results[cell] = NoFit)
        => pc # "raised AttributeError"

\* The fit of the slice of the record r has, prefix by prefix, the component
\* vectors of the fit of its reference, and no two components are alike
SameFitAsReference(r) ==
    /\ \A i \in DOMAIN prefixes :
          as_vector(r.fit_result, prefixes[i]) = as_vector(r.closest_fit, prefixes[i])
    /\ \A i, j \in DOMAIN prefixes :
          i # j => as_vector(r.fit_result, prefixes[i]) # as_vector(r.fit_result, prefixes[j])

\* C26 (as claimed): a slice after the first whose fit equals that of its
\* reference slice, with pairwise distinct components, is given the
\* assignment of the reference, identity or not.
C26_StableWhenNothingChanged ==
    \A s \in DOMAIN resolved :
        (~resolved[s].first /\ SameFitAsReference(resolved[s])) =>
            resolved[s].ordered_prefixes = resolved[s].closest_prefixes

(***************************************************************************)
(* Properties of fit_bands, checked under SpecFitBands.                    *)
(***************************************************************************)
\* The squared distance of two coordinate tuples
SquaredDistance(a, b) == SumTo([i \in DOMAIN a |-> (a[i] - b[i]) * (a[i] - b[i])], Len(a))

LastSwept == swept[Len(swept)]

\* The positions of the cache entries nearest to the slice of the record r
NearestEntries(r) ==
    { e \in DOMAIN r.cache :
        \A o \in DOMAIN r.cache :
            SquaredDistance(r.cache[e].coord, r.frozen_coordinate)
                <= SquaredDistance(r.cache[o].coord, r.frozen_coordinate) }

\* C6 (as claimed): once a slice has been fit, the initial parameters of the
\* next slice are those of a cached slice of minimal squared distance to it;
\* stated for direction "mdc", the one spelling for which the sweep reads
\* the cache at all.
C6_PriorIsNearestNeighbor ==
    (swept # <<>> /\ LastSwept.cache # <<>> /\ direction = "mdc") =>
        \E e \in NearestEntries(LastSwept) :
            LastSwept.closest_model_params = LastSwept.cache[e].params

\* C7 (as claimed): when several cached coordinates are at the same minimal
\* squared distance from the slice, the first of them in insertion order
\* gives the initial parameters; stated for direction "mdc".
C7_FirstNearestWinsOnTies ==
    (swept # <<>> /\ direction = "mdc" /\ Cardinality(NearestEntries(LastSwept)) >= 2) =>
        LET first == CHOOSE e \in NearestEntries(LastSwept) :
                         \A o \in NearestEntries(LastSwept) : e <= o
        IN  LastSwept.closest_model_params = LastSwept.cache[first].params

\* C8: after the n-th slice the cache holds exactly the n coordinates fit so
\* far, each with the parameters of its own fit, in the order of the sweep;
\* and the lookup of a slice read exactly the entries of the slices before it.
C8_CacheGrowsMonotonically ==
    /\ all_fit_parameters =
           [i \in DOMAIN swept |->
               [coord |-> swept[i].frozen_coordinate,
                params |-> swept[i].fit_result.params]]
    /\ \A s \in DOMAIN swept :
         /\ swept[s].cache =
                [i \in 1..(s - 1) |->
                    [coord |-> swept[i].frozen_coordinate,
                     params |-> swept[i].fit_result.params]]
         /\ swept[s].closest_model_params \in
                {initial_fits} \cup { swept[i].fit_result.params : i \in 1..(s - 1) }

\* A sweep over a 2 x 2 grid of slices has returned, the last slice seeded
\* from the cache.
C8_Witness ==
    /\ pc = "returned"
    /\ Len(directions) = 2
    /\ Len(all_fit_parameters) >= 4
    /\ swept[4].closest_model_params.kind = "fit"

\* The axis fit_bands has to take out of arr.dims: a momentum axis for
\* direction "mdc" without preferred_k_direction, "eV" otherwise
LacksBroadcastAxis ==
    IF direction = "mdc" /\ preferred_k_direction = ""
    THEN Range(arr.dims) \cap {"kp", "kx", "ky", "phi"} = {}
    ELSE "eV" \notin Range(arr.dims)

\* C21: a call with a direction outside edc, mdc, EDC, MDC, or on an array
\* without the broadcast axis it needs, never gets past its start: it raises
\* with no band peeled, no marginal fit, no grid of results and nothing
\* returned.
C21_ContractViolationsFailFast ==
    (direction \notin {"edc", "mdc", "EDC", "MDC"} \/ LacksBroadcastAxis) =>
        /\ pc \in {"start", "raised AssertionError", "raised StopIteration",
                   "raised ValueError"}
        /\ peeling = <<>>
        /\ swept = <<>>
        /\ fit_results = <<>>
        /\ all_fit_parameters = <<>>
        /\ returned = <<>>

\* A call with a refused direction on an array that has the eV axis has
\* raised at line 444.
C21_Witness ==
    /\ pc = "raised AssertionError"
    /\ direction \notin {"edc", "mdc", "EDC", "MDC"}
    /\ "eV" \in Range(arr.dims)
    /\ Len(arr.dims) >= 2

\* The reference marginal of a call: the first marginal shifted by its minimum
ReferenceShifted ==
    LET marginal == SubSeq(spectrum, 1, Len(arr.coords[broadcast_direction]))
        least == CHOOSE v \in Range(marginal) : \A w \in Range(marginal) : v <= w
    IN  [i \in DOMAIN marginal |-> marginal[i] - least]

\* The reference marginal less the best fits of the first k bands
RECURSIVE PeeledBy(_)
PeeledBy(k) ==
    IF k = 0 THEN ReferenceShifted
    ELSE [i \in DOMAIN ReferenceShifted |->
            PeeledBy(k - 1)[i] - peeling[k].initial_fit.best_fit[i]]

\* C25: the k-th pass of the peeling takes the k-th band of band_description
\* and fits it to the reference marginal, shifted by its minimum, less the
\* best fits of the bands before it; once every band is peeled the initial
\* parameters hold the parameters of each band's fit; and a call with
\* step='initial' returns (None, None, final residual) with no slice swept.
C25_PeelingInOrderOnRunningResidual ==
    /\ \A k \in DOMAIN peeling :
         /\ peeling[k].band = band_description[k]
         /\ peeling[k].residual = PeeledBy(k - 1)
    /\ pc \in {"sweep", "returned", "returned residual"} =>
         /\ Len(peeling) = Len(band_description)
         /\ \A k \in DOMAIN peeling :
              \A name \in DOMAIN peeling[k].initial_fit.params :
                 /\ name \in DOMAIN initial_fits.params
                 /\ initial_fits.params[name] = peeling[k].initial_fit.params[name]
    /\ step = "initial" =>
         /\ pc \notin {"sweep", "returned"}
         /\ swept = <<>>
         /\ fit_results = <<>>
         /\ pc = "returned residual" =>
              returned = << <<>>, <<>>, <<PeeledBy(Len(band_description))>> >>
    /\ pc = "returned residual" => step = "initial"

\* A call with step='initial' has returned after peeling three bands, the
\* second of them fit to less than the first was.
C25_Witness ==
    /\ pc = "returned residual"
    /\ Len(peeling) = 3
    /\ peeling[2].residual # peeling[1].residual
    /\ peeling[1].initial_fit.params # peeling[2].initial_fit.params

\* The other accepted spelling of a direction
Respelled(dir) ==
    CASE dir = "mdc" -> "MDC"
      [] dir = "MDC" -> "mdc"
      [] dir = "edc" -> "EDC"
      [] dir = "EDC" -> "edc"

\* C28 (as claimed): a call with an accepted direction that got past its
\* start has taken a broadcast axis that the same call with the direction
\* spelled in the other case takes, and has seeded every slice with the
\* parameters that call seeds it with.
C28_SpellingsTreatedAlike ==
    (/\ direction \in {"edc", "mdc", "EDC", "MDC"}
     /\ pc \in {"peel", "sweep", "returned", "returned residual"}) =>
        /\ broadcast_direction \in
               BroadcastDirections(arr, Respelled(direction), preferred_k_direction)
        /\ \A s \in DOMAIN swept :
              ClosestModelParams(swept[s].cache, swept[s].frozen_coordinate,
                                 Respelled(direction), initial_fits)
                  = swept[s].closest_model_params

(***************************************************************************)
(* Properties of _iterate_marginals, checked under SpecIterate.            *)
(***************************************************************************)
\* The product of the lengths of the coordinate vectors of dirs
RECURSIVE ProductOfLengths(_, _)
ProductOfLengths(a, dirs) ==
    IF dirs = <<>> THEN 1
    ELSE Len(a.coords[dirs[1]]) * ProductOfLengths(a, Tail(dirs))

\* The directions a call iterates over
CalledDirections ==
    IF iterate_directions = <<>>
    THEN SelectSeq(arr.dims, LAMBDA d : d # "eV")
    ELSE iterate_directions[1]

\* The calls that have run to their end
CompletedCalls == { c \in DOMAIN yielded : c < Len(yielded) \/ pc = "exhausted" }

IsPrefix(s, t) == Len(s) <= Len(t) /\ s = SubSeq(t, 1, Len(s))

\* C9: a call yields one slice per combination of coordinate values of the
\* iterate directions, each combination once, and a second call on the same
\* array yields the same sequence in the same order.
C9_MarginalCountAndRestart ==
    /\ \A c \in CompletedCalls :
         LET ys == yielded[c]
             combos == { ys[i].coords : i \in DOMAIN ys }
         IN  /\ Len(ys) = ProductOfLengths(arr, CalledDirections)
             /\ Cardinality(combos) = Len(ys)
             /\ combos = { f \in [Range(CalledDirections) ->
                                     UNION { Range(arr.coords[d]) : d \in DOMAIN arr.coords }] :
                             \A d \in Range(CalledDirections) :
                                 f[d] \in Range(arr.coords[d]) }
    /\ \A c \in DOMAIN yielded : IsPrefix(yielded[c], yielded[1])
    /\ \A c \in CompletedCalls : yielded[c] = yielded[1]

\* Two calls over two directions of two coordinates each have both ended.
C9_Witness ==
    /\ pc = "exhausted"
    /\ Len(yielded) = 2
    /\ Len(CalledDirections) = 2
    /\ Len(yielded[2]) = 4

\* C10: with no iterate direction a call yields exactly one element, the
\* whole array with an empty coordinate mapping.
C10_NoFreeAxisYieldsWholeSlice ==
    \A c \in CompletedCalls :
        CalledDirections = <<>> =>
            /\ Len(yielded[c]) = 1
            /\ DOMAIN yielded[c][1].coords = {}
            /\ yielded[c][1].marginal.dims = arr.dims
            /\ DOMAIN yielded[c][1].marginal.at = {}

\* A call with an empty list of directions on a three-dimensional array has ended.
C10_Witness ==
    /\ pc = "exhausted"
    /\ iterate_directions = << <<>> >>
    /\ Len(arr.dims) = 3
    /\ Len(yielded[1]) = 1

(***************************************************************************)
(* Properties of fit_patterned_bands, checked under SpecPatterned.         *)
(***************************************************************************)
\* The patterning coordinate of a slice and its place in a control point
PatterningDim == free_directions[1]

PatterningIndex == IndexOf(arr.dims, PatterningDim)

\* The consecutive pairs of a band's control points whose closed interval
\* holds c
Bracketing(points, c) ==
    { i \in 1..(Len(points) - 1) :
        LET a == points[i][PatterningIndex]
            b == points[i + 1][PatterningIndex]
        IN  (a <= c /\ c <= b) \/ (b <= c /\ c <= a) }

\* center = ca + (c - a) / (b - a) * (cb - ca), for the pair that starts at i
OnTheSegment(points, i, c, center) ==
    LET a == points[i][PatterningIndex]
        b == points[i + 1][PatterningIndex]
        ca == points[i][3 - PatterningIndex]
        cb == points[i + 1][3 - PatterningIndex]
    IN  center * (b - a) = ca * (b - a) + (c - a) * (cb - ca)

\* The estimate yielded for the pair that starts at i: the pairs yield in order
EstimateOf(points, locations, c, i) ==
    locations[Cardinality({ j \in Bracketing(points, c) : j <= i })]

\* C11: for every slice and every band, each consecutive pair of control
\* points with distinct patterning coordinates a # b that brackets the
\* slice's coordinate c (min(a, b) <= c <= max(a, b)) yields the estimate
\* ca + (c - a) / (b - a) * (cb - ca) at c, whichever of a, b is the smaller;
\* a coordinate outside every pair's interval yields no estimate.
C11_LinearInterpolationInsideOnly ==
    \A k \in { j \in DOMAIN patterned_swept : patterned_swept[j].raised = "" } :
      LET c == patterned_swept[k].coord_dict[PatterningDim]
          before == patterned_swept[k].band_set_before
      IN  \A n \in DOMAIN before :
            LET points == before[n].points
                locations == patterned_swept[k].locations[n]
            IN  /\ Bracketing(points, c) = {} => locations = <<>>
                /\ \A i \in Bracketing(points, c) :
                      points[i][PatterningIndex] # points[i + 1][PatterningIndex]
                          => /\ Len(locations) >= Cardinality(Bracketing(points, c))
                             /\ EstimateOf(points, locations, c, i)[1] = c
                             /\ OnTheSegment(points, i, c,
                                             EstimateOf(points, locations, c, i)[2])

\* A slice strictly inside a pair whose patterning coordinates descend and
\* whose centers differ, with the estimate that was yielded for it
C11_Witness ==
    \E k \in DOMAIN patterned_swept :
      /\ patterned_swept[k].band_set_before # <<>>
      /\ patterned_swept[k].raised = ""
      /\ LET c == patterned_swept[k].coord_dict[PatterningDim]
             points == patterned_swept[k].band_set_before[1].points
         IN  \E i \in Bracketing(points, c) :
               /\ points[i + 1][PatterningIndex] < c
               /\ c < points[i][PatterningIndex]
               /\ points[i][3 - PatterningIndex] # points[i + 1][3 - PatterningIndex]
               /\ patterned_swept[k].locations[1] # <<>>

\* The patterning coordinates of the control points strictly rise or strictly
\* fall, so that two pairs can hold the same coordinate only at a control
\* point that they share
Monotone(points) ==
    \/ \A i \in 1..(Len(points) - 1) :
          points[i][PatterningIndex] < points[i + 1][PatterningIndex]
    \/ \A i \in 1..(Len(points) - 1) :
          points[i][PatterningIndex] > points[i + 1][PatterningIndex]

\* C12: at every slice, each requested band whose control points run
\* monotonically along the patterning coordinate contributes at most one
\* partial band, also when the slice's coordinate is a control point shared
\* by two consecutive pairs.
C12_AtMostOnePartialBandPerBand ==
    \A k \in { j \in DOMAIN patterned_swept : patterned_swept[j].raised = "" } :
      \A n \in DOMAIN patterned_swept[k].band_set_before :
        Monotone(patterned_swept[k].band_set_before[n].points)
            => Len(patterned_swept[k].locations[n]) <= 1

\* No band of the band set has a pair of control points that brackets the
\* patterning coordinate of the slice
NothingBracketed(locals) ==
    \A n \in DOMAIN locals.band_set_before :
        Bracketing(locals.band_set_before[n].points,
                   locals.coord_dict[PatterningDim]) = {}

\* C13: a slice at which no requested band has a bracketing pair of control
\* points raises nothing, builds no model and runs no fit, with or without a
\* background; its cell of the result grid holds None, the residual pass
\* skips it and its residual stays zero.
C13_UnbracketedSliceGetsNone ==
    \A k \in DOMAIN patterned_swept :
      NothingBracketed(patterned_swept[k]) =>
        LET cell == patterned_swept[k].cell
        IN  /\ patterned_swept[k].raised = ""
            /\ patterned_swept[k].internal_models = <<>>
            /\ ~patterned_swept[k].fit_run
            /\ patterned_results[cell] = <<NoFit>>
            /\ residual # <<>> => residual[cell] = Zeros
            /\ Len(residual_log) >= cell => residual_log[cell] = "continue"

\* With background=False and a band that brackets no slice, the sweep went
\* past an unbracketed slice to another one and returned the dataset
C13_Witness ==
    /\ pc = "returned Dataset"
    /\ background = "False"
    /\ band_set # <<>>
    /\ Len(patterned_swept) >= 2
    /\ NothingBracketed(patterned_swept[1])
    /\ residual_log[patterned_swept[1].cell] = "continue"

\* C15: in the dataset branch, a cell whose residual could not be stored
\* keeps a zero residual, a cell whose residual was stored keeps that
\* residual whatever happens at the cells after it, a cell not yet visited or
\* without a fit is zero, and no exception leaves the loop.
C15_ResidualFailureIsLocal ==
    residual # <<>> =>
      /\ pc \in {"residual", "returned Dataset"}
      /\ DOMAIN residual = DOMAIN patterned_results
      /\ \A i \in DOMAIN residual :
            IF i <= Len(residual_log) /\ residual_log[i] = "stored"
            THEN residual[i] = [kind |-> "residual", of |-> patterned_results[i][1].at]
            ELSE residual[i] = Zeros

\* The dataset was returned although a residual could not be stored, and a
\* cell after that one has its residual
C15_Witness ==
    /\ pc = "returned Dataset"
    /\ \E i, j \in DOMAIN residual_log :
         /\ i < j
         /\ residual_log[i] = "suppressed"
         /\ residual_log[j] = "stored"
         /\ residual[j] # Zeros

\* Lines 354-368 on one slice, from the band set as the caller passed it
ModelsFromScratch(coord_dict) ==
    LET resolved_bands ==
            ResolveBandSet(arr, coord_dict, Sel(arr, coord_dict), band_set_at_call,
                           Len(band_set_at_call), stray, FALSE)
        bracketed ==
            SelectSeq([n \in DOMAIN resolved_bands.bands |->
                          resolved_bands.bands[n].partial_bands],
                      LAMBDA b : Len(b) > 0)
        partial_bands == Concat(WithBackground(bracketed, background))
    IN  [i \in DOMAIN partial_bands |-> _instantiate_band(partial_bands[i])]

NonDegenerate(points) ==
    \A i \in 1..(Len(points) - 1) :
        points[i][PatterningIndex] # points[i + 1][PatterningIndex]

\* C22 (as claimed): with background=False and control points that are
\* nowhere degenerate, every slice at which a band is bracketed is fit, by a
\* composite of peak models of the patterned bands only, and the sweep
\* raises nothing.
C22_BackgroundIsOptional ==
    (/\ background = "False"
     /\ pc # "start"
     /\ \A n \in DOMAIN band_set_at_call : NonDegenerate(band_set_at_call[n].points)) =>
        /\ pc \in {"sweep", "residual", "returned DataArray", "returned Dataset"}
        /\ \A k \in DOMAIN patterned_swept :
              LET locals == patterned_swept[k]
              IN  ~NothingBracketed(locals) =>
                     /\ locals.raised = ""
                     /\ locals.fit_run
                     /\ \A i \in DOMAIN locals.internal_models :
                           locals.internal_models[i].shape = "peak"

\* The stray that line 332 passes for a band description: its own
\* params['stray'] if it has one, the stray of the call otherwise
StrayOf(description) ==
    IF description.params # <<>> /\ "stray" \in DOMAIN description.params[1]
    THEN <<description.params[1].stray>>
    ELSE stray

\* The partial bands of the slice of locals that carry the name given
PartialBandsNamed(locals, name) ==
    LET all == Concat(locals.partial_bands)
    IN  { all[b] : b \in { x \in DOMAIN all : all[x].name = name } }

\* C23: at a slice where a band has one bracketing pair, with interpolated
\* center c (a number) and stray s, the hints of its partial band have center value c,
\* and with s a number center min c - s, center max c + s and sigma value s,
\* with s None no bound on the center; and no model is given a hint named
\* 'stray'.
C23_BuildParamsWindow ==
    \A k \in DOMAIN patterned_swept :
        LET locals == patterned_swept[k]
        IN  /\ \A n \in DOMAIN locals.locations :
                 (Len(locals.locations[n]) = 1 /\ locals.locations[n][1][2] # NaN) =>
                    LET c == locals.locations[n][1][2]
                        s == StrayOf(locals.band_set_before[n])
                        name == locals.band_set_before[n].name \o "_0"
                    IN  /\ PartialBandsNamed(locals, name) # {}
                        /\ \A partial_band \in PartialBandsNamed(locals, name) :
                              LET hints == partial_band.params
                              IN  /\ hints.center.value = c
                                  /\ s # <<>> =>
                                        /\ hints.center.min = c - s[1]
                                        /\ hints.center.max = c + s[1]
                                        /\ hints.sigma.value = s[1]
                                  /\ s = <<>> => DOMAIN hints.center = {"value"}
            /\ \A i \in DOMAIN locals.internal_models :
                  "stray" \notin DOMAIN locals.internal_models[i].param_hints

\* A slice has been fit at which band a, with a stray of its own, and band b,
\* with no stray at all, are each bracketed once.
C23_Witness ==
    \E k \in DOMAIN patterned_swept :
        LET locals == patterned_swept[k]
        IN  /\ locals.fit_run
            /\ stray = <<>>
            /\ Len(locals.locations) = 2
            /\ Len(locals.locations[1]) = 1
            /\ Len(locals.locations[2]) = 1
            /\ StrayOf(locals.band_set_before[1]) = <<2>>
            /\ \E i \in DOMAIN locals.internal_models :
                  /\ locals.internal_models[i].prefix = "a_0"
                  /\ locals.internal_models[i].param_hints.center.max
                        = locals.locations[1][1][2] + 2

\* A pair of consecutive control points that both lie at the patterning
\* coordinate c
DegenerateAt(points, c) ==
    \E i \in 1..(Len(points) - 1) :
        points[i][PatterningIndex] = c /\ points[i + 1][PatterningIndex] = c

\* C24 (as claimed): a slice whose patterning coordinate is that of a
\* degenerate pair of control points raises nothing; its cell of the result
\* grid holds None and the sweep goes on.
C24_DegeneratePairRecoveredLocally ==
    (pc # "start" /\ background # "False") =>
        \A k \in DOMAIN patterned_swept :
            LET locals == patterned_swept[k]
            IN  (\E n \in DOMAIN locals.band_set_before :
                    DegenerateAt(locals.band_set_before[n].points,
                                 locals.coord_dict[PatterningDim])) =>
                   /\ locals.raised = ""
                   /\ pc \in {"sweep", "residual", "returned DataArray", "returned Dataset"}
                   /\ patterned_results[locals.cell] = <<NoFit>>

\* C27 (as claimed): at every slice, each partial band of a band holds the
\* center interpolated from its own pair of control points, also when two
\* pairs of the band bracket the slice.
C27_PartialBandsNotAliased ==
    \A k \in DOMAIN patterned_swept :
        LET locals == patterned_swept[k]
        IN  \A n \in DOMAIN locals.locations :
               \A i \in DOMAIN locals.locations[n] :
                  \A partial_band \in
                        PartialBandsNamed(locals, locals.band_set_before[n].name
                                                      \o "_" \o ToString(i - 1)) :
                     partial_band.params.center.value = locals.locations[n][i][2]

(***************************************************************************)
(* Properties of both sweeps, checked under SpecSweep.                     *)
(***************************************************************************)
\* The cells of an array with the dims and coords of a, fit_axis removed: a
\* cell is a choice of a coordinate of each remaining dimension
GridCells(a, fit_axis) ==
    LET remaining == Range(a.dims) \ {fit_axis}
    IN  { f \in [remaining -> UNION { Range(a.coords[d]) : d \in remaining }] :
            \A d \in remaining : f[d] \in Range(a.coords[d]) }

\* C14: when a sweep has completed, the cells written are exactly the cells
\* of the input array with the fit axis removed, each written exactly once,
\* with a fit result or with None.
C14_EveryCellWrittenOnce ==
    /\ (prog = "fit_bands" /\ pc = "returned") =>
          /\ { fit_results[i].coord : i \in DOMAIN fit_results }
                = GridCells(arr, broadcast_direction)
          /\ Len(fit_results) = Cardinality(GridCells(arr, broadcast_direction))
          /\ \A i \in DOMAIN fit_results : fit_results[i].value.params.kind = "fit"
    /\ (prog = "fit_patterned_bands" /\ pc \in {"returned DataArray", "returned Dataset"}) =>
          LET slices == iterate_axis(arr, free_directions)
          IN  /\ DOMAIN patterned_results = DOMAIN slices
              /\ { slices[i].coords : i \in DOMAIN slices } = GridCells(arr, fit_direction)
              /\ Len(slices) = Cardinality(GridCells(arr, fit_direction))
              /\ \A i \in DOMAIN patterned_results :
                    /\ Len(patterned_results[i]) = 1
                    /\ \/ patterned_results[i][1] = NoFit
                       \/ /\ patterned_results[i][1].kind = "fit"
                          /\ patterned_results[i][1].at = slices[i].coords

\* A completed patterned sweep whose grid holds both a fit and a None
C14_Witness ==
    /\ prog = "fit_patterned_bands"
    /\ pc \in {"returned DataArray", "returned Dataset"}
    /\ \E i, j \in DOMAIN patterned_results :
         /\ patterned_results[i] = <<NoFit>>
         /\ patterned_results[j] # <<>>
         /\ patterned_results[j][1].kind = "fit"

(***************************************************************************)
(* Properties of XModelMixin.__add__, checked under SpecAdd.               *)
(***************************************************************************)
\* The prefixes of the leaves of a model
RECURSIVE Prefixes(_)
Prefixes(m) ==
    IF m.kind = "Model" THEN {m.prefix} ELSE Prefixes(m.left) \cup Prefixes(m.right)

\* The parameter values and the points at which the models are evaluated
ParameterSets ==
    [UNION { Range(param_names(m)) : m \in LeafModels } -> {0, 1}]

EvaluationPoints == {0, 1, 2}

\* comp is the sum of the models a and b
IsSumOf(comp, a, b) ==
    /\ comp.kind = "XAdditiveCompositeModel"
    /\ comp.n_dims = a.n_dims
    /\ Range(param_names(comp)) = Range(param_names(a)) \cup Range(param_names(b))
    /\ \A params \in ParameterSets : \A x \in EvaluationPoints :
          eval(comp, params, x) = eval(a, params, x) + eval(b, params, x)

\* C20, as the code has it: for models with disjoint prefixes and the same
\* n_dims, self + other is an XAdditiveCompositeModel whose value is the sum
\* of the values of self and other and whose parameter names are the union
\* of theirs; for models of different n_dims, self + other raises
\* AssertionError.
C20_SumOfModelsOfEqualDims ==
    LET sum == composite[1]
    IN  (sum.self # <<>> /\ Prefixes(sum.self[1]) \cap Prefixes(sum.other[1]) = {}) =>
          IF sum.self[1].n_dims = sum.other[1].n_dims
          THEN /\ pc = "idle"
               /\ IsSumOf(sum.comp, sum.self[1], sum.other[1])
          ELSE pc = "raised AssertionError"

\* A sum was an operand of +, on the left of a third model, and the values
\* of the operands are not all zero
C20_Witness ==
    LET sum == composite[1]
    IN  /\ pc = "idle"
        /\ sum.self # <<>>
        /\ sum.self[1].kind = "XAdditiveCompositeModel"
        /\ sum.comp.left = sum.self[1]
        /\ \E params \in ParameterSets : \E x \in EvaluationPoints :
              /\ eval(sum.self[1], params, x) # 0
              /\ eval(sum.other[1], params, x) # 0

\* C20, as stated: for models with disjoint prefixes, self + other is an
\* XAdditiveCompositeModel whose value is the sum of the values of self and
\* other and whose parameter names are the union of theirs.
C20_SumOfModels ==
    LET sum == composite[1]
    IN  (sum.self # <<>> /\ Prefixes(sum.self[1]) \cap Prefixes(sum.other[1]) = {}) =>
          /\ pc = "idle"
          /\ IsSumOf(sum.comp, sum.self[1], sum.other[1])
(***************************************************************************)
(* Properties of HotPool, checked under SpecPool.                          *)
(***************************************************************************)
\* Only reads of hot_pool.pool so far
OnlyReads == \A i \in DOMAIN pool_log : pool_log[i].op = "read"

\* C29: as long as hot_pool.pool is only read, no Pool is made before the
\* first read, one Pool is made by it and none after, and every read returns
\* that Pool, open; a __del__ on a held Pool closes it, leaves every other
\* Pool as it is and sets the holder to None, and a __del__ with no Pool
\* held changes nothing.
C29_LazyKeepAliveSingleton ==
    /\ OnlyReads =>
          /\ pool_log = <<>> => (pools_made = <<>> /\ hot_pool._pool = <<>>)
          /\ pool_log # <<>> => (pools_made = <<"open">> /\ hot_pool._pool = <<1>>)
          /\ \A i \in DOMAIN pool_log : pool_log[i].returned = <<1>>
    /\ \A i \in DOMAIN pool_log :
          LET call == pool_log[i]
          IN  call.op = "del" =>
                 /\ call.self_after._pool = <<>>
                 /\ call.self_before._pool = <<>> => call.made_after = call.made_before
                 /\ call.self_before._pool # <<>> =>
                       call.made_after =
                           [p \in DOMAIN call.made_before |->
                               IF p = call.self_before._pool[1] THEN "closed"
                               ELSE call.made_before[p]]

\* Two reads, then a __del__ that closes the Pool, then a __del__ with
\* nothing to close.
C29_Witness ==
    /\ Len(pool_log) = 4
    /\ pool_log[1].op = "read"
    /\ pool_log[2].op = "read"
    /\ pool_log[2].returned = <<1>>
    /\ pool_log[3].op = "del"
    /\ pool_log[3].made_after = <<"closed">>
    /\ pool_log[4].op = "del"
    /\ pool_log[4].self_before._pool = <<>>

(***************************************************************************)
(* Properties of XModelMixin.guess_fit, checked under SpecGuessFit.        *)
(***************************************************************************)
\* C30 (as claimed): a call with transpose=True, on an xr.DataArray of as many
\* dimensions as the model has, raises the assertion of line 160 when the
\* data has more than one dimension; on one-dimensional data it raises
\* nothing and fits the coordinate as the data, the values of the data taking
\* the place of the coordinate.
C30_TransposeOnlyOneDimensional ==
    (/\ pc # "start"
     /\ guess_fit_args.transpose
     /\ Len(guess_fit_args.data.dims) = guess_fit_args.self.n_dims
     /\ guess_fit_args.data.is_xarray) =>
        IF Len(guess_fit_args.data.dims) > 1
        THEN /\ guess_fit_locals.raised = "AssertionError"
             /\ guess_fit_locals.message =
                   "You cannot transpose (invert) a multidimensional array (scalar field)."
        ELSE /\ guess_fit_locals.raised = ""
             /\ guess_fit_locals.real_data =
                   [kind |-> "coords", of |-> guess_fit_args.data.dims[1]]
             /\ guess_fit_locals.coord_values[1].value = [kind |-> "values", of |-> ""]

====
